---- MODULE Spec2Model ----
(***************************************************************************)
(* Session store of the sludge-experiment server (src/src/server.js, the   *)
(* generation of the server at lines 736-2515) and the session start-up of *)
(* the browser tracker (src/public/js/tracker.js).                         *)
(*                                                                         *)
(* JavaScript objects are functions from field names to values; a field    *)
(* that is undefined is absent from the domain.  Every new Date() reads the *)
(* instant Now; NullTime stands for a null timestamp and Null for a null   *)
(* string.  Pass-through device metadata of a session (user_agent,    *)
(* screen sizes, timezone, ...) is not represented.                        *)
(***************************************************************************)
EXTENDS Integers, Sequences, FiniteSets, TLC

VARIABLES
  sessionsLog,    \* data/sessions.jsonl: the parsed lines, in file order
  updatesLog,     \* data/sessions_updates.jsonl
  eventLogs,      \* the event files: file name -> parsed lines, in file order
  sessionIndex,   \* const sessionIndex = {}: insertion-ordered <<[key, val]>>
  currentBlock,   \* blockRandomize._currentBlock (<<>> is null)
  nextId,         \* source of uuidv4()
  req,            \* the request handled last
  resp,           \* the response it got
  probe,          \* a call of a pure function: its argument and its result
  tabs,           \* the browser tabs running the tracker's initSession
  cookie,         \* the browser's sludge_session_id cookie (NoCookie when unset)
  browser         \* one page of the experiment: its engine, tracker and requests

serverVars == <<sessionsLog, updatesLog, eventLogs, sessionIndex, currentBlock, nextId, req, resp>>
clientVars == <<tabs, cookie, browser>>
vars == <<serverVars, probe, clientVars>>

\* ------------------------------------------------------------------------
\* Bounds
\* ------------------------------------------------------------------------
MaxSessions == 2
MaxUpdates == 3
MaxResumeUpdates == 2
MaxEvents == 2
MaxOrganic == 8
MaxForced == 1
MaxTabs == 2
MaxClientSessions == 2

\* ------------------------------------------------------------------------
\* Values
\* ------------------------------------------------------------------------
Null == "null"
NullTime == 0
Now == 1
EmptyObj == [k \in {} |-> 0]

\* The values of form fields are tagged with their JavaScript type, so that
\* a test like responses.f === 'no' or Array.isArray(v) can be made on any
\* of them: Str(s) is the string s, Arr(items) an array of strings and
\* JsNull is null; an undefined field is absent.
Str(s) == [str |-> s]
Arr(items) == [arr |-> items]
JsNull == [null |-> TRUE]
\* a session id that uuidv4() never returns
GhostId == MaxSessions + 1

\* req.body.k || d
Field(body, k, d) == IF k \in DOMAIN body THEN body[k] ELSE d

\* a || b || d over two optional string fields of a body
Either(body, k1, k2, d) ==
  IF k1 \in DOMAIN body /\ body[k1] # "" THEN body[k1]
  ELSE IF k2 \in DOMAIN body /\ body[k2] # "" THEN body[k2]
  ELSE d

\* the fields of obj among keys (destructuring; undefined ones stay absent)
Pick(obj, keys) == [k \in DOMAIN obj \cap keys |-> obj[k]]

\* Object.assign(target, source) / { ...target, ...source }
Assign(target, source) ==
  [k \in DOMAIN target \cup DOMAIN source |->
     IF k \in DOMAIN source THEN source[k] ELSE target[k]]

\* ------------------------------------------------------------------------
\* Event Log Store
\* ------------------------------------------------------------------------
\* the line appendJsonl writes for data at time t, as readJsonl parses it
Stamp(data, t) == Assign(data, "_written_at" :> t)

appendJsonl_Prepend(log, data) == <<Stamp(data, Now)>> \o log
\* fs.appendFileSync(filepath, line)
appendJsonl(log, data) == Append(log, Stamp(data, Now))

\* ------------------------------------------------------------------------
\* Session Index: a JS object keyed by session_id, in insertion order
\* ------------------------------------------------------------------------
IndexKeys(idx) == {idx[i].key : i \in 1..Len(idx)}
IndexHas(idx, id) == id \in IndexKeys(idx)
IndexPos(idx, id) == CHOOSE i \in 1..Len(idx) : idx[i].key = id
IndexGet(idx, id) == idx[IndexPos(idx, id)].val
IndexPut(idx, id, rec) ==
  IF IndexHas(idx, id)
  THEN [idx EXCEPT ![IndexPos(idx, id)] = [key |-> id, val |-> rec]]
  ELSE Append(idx, [key |-> id, val |-> rec])
IndexValues(idx) == [i \in 1..Len(idx) |-> idx[i].val]

RECURSIVE LoadFrom(_, _, _)
LoadFrom(idx, sessions, i) ==
  IF i > Len(sessions) THEN idx
  ELSE LoadFrom(IF "session_id" \in DOMAIN sessions[i]
                THEN IndexPut(idx, sessions[i].session_id, sessions[i])
                ELSE idx,
                sessions, i + 1)

loadSessionIndex_Empty(sessions) == <<>>
\* loadSessionIndex(): the index is rebuilt from the records of sessions.jsonl
loadSessionIndex(sessions) == LoadFrom(<<>>, sessions, 1)

\* ------------------------------------------------------------------------
\* Block randomization
\* ------------------------------------------------------------------------
ESTIMATION_CONDITIONS == <<"self", "average">>
ESTIMATION_BLOCK_SIZE == 4
Conditions == {ESTIMATION_CONDITIONS[i] : i \in 1..Len(ESTIMATION_CONDITIONS)}

CountedAll(s) == "condition_code" \in DOMAIN s /\ s.condition_code \in Conditions
Counted(s) ==
  /\ ~(("condition_forced" \in DOMAIN s) /\ s.condition_forced = TRUE)
  /\ "condition_code" \in DOMAIN s
  /\ s.condition_code \in Conditions

\* the condition codes of the non-forced assignments, in index order
Assigned(existingSessions) ==
  LET kept == SelectSeq(existingSessions, Counted)
  IN [i \in 1..Len(kept) |-> kept[i].condition_code]

CountOf(assigned, c) == Cardinality({i \in 1..Len(assigned) : assigned[i] = c})

\* the unshuffled block: BLOCK_SIZE / #conditions copies of each condition
FreshBlock ==
  LET per == ESTIMATION_BLOCK_SIZE \div Len(ESTIMATION_CONDITIONS)
  IN [i \in 1..ESTIMATION_BLOCK_SIZE |-> ESTIMATION_CONDITIONS[((i - 1) \div per) + 1]]

Swap(b, i, j) == [b EXCEPT ![i] = b[j], ![j] = b[i]]

RECURSIVE Shuffles(_, _)
\* Fisher-Yates from (1-based) position i down to 2, every choice of j
Shuffles(b, i) ==
  IF i <= 1 THEN {b}
  ELSE UNION {Shuffles(Swap(b, i, j), i - 1) : j \in 1..i}

\* the last n elements of s (Array.prototype.slice(-n), n > 0)
SliceLast(s, n) ==
  IF n >= Len(s) THEN s ELSE [i \in 1..n |-> s[Len(s) - n + i]]

Consistent(block, assigned, posInBlock) ==
  LET expected == SubSeq(block, 1, posInBlock)
      actual == SliceLast(assigned, posInBlock)
  IN \A i \in 1..Len(expected) : i <= Len(actual) /\ expected[i] = actual[i]

Fallback_FavorsMajority(assigned) ==
  LET selfCount == CountOf(assigned, "self")
      avgCount == CountOf(assigned, "average")
  IN IF selfCount < avgCount THEN {"average"}
     ELSE IF avgCount < selfCount THEN {"self"}
     ELSE {"self", "average"}

\* the balanced-deficit rule: the set of conditions the fallback may return
Fallback(assigned) ==
  LET selfCount == CountOf(assigned, "self")
      avgCount == CountOf(assigned, "average")
  IN IF selfCount < avgCount THEN {"self"}
     ELSE IF avgCount < selfCount THEN {"average"}
     ELSE {"self", "average"}

NextInBlock_First(block, posInBlock) == block[1]
\* blockRandomize._currentBlock[posInBlock] (0-based in the source)
NextInBlock(block, posInBlock) == block[posInBlock + 1]

\* the outcomes of blockRandomize: the condition returned and the block cached
blockRandomize(existingSessions, block) ==
  LET assigned == Assigned(existingSessions)
      total == Len(assigned)
      posInBlock == total % ESTIMATION_BLOCK_SIZE
  IN IF posInBlock = 0
     THEN {[cond |-> b[1], block |-> b] : b \in Shuffles(FreshBlock, ESTIMATION_BLOCK_SIZE)}
     ELSE IF Len(block) = ESTIMATION_BLOCK_SIZE /\ Consistent(block, assigned, posInBlock)
          THEN {[cond |-> NextInBlock(block, posInBlock), block |-> block]}
          ELSE {[cond |-> c, block |-> block] : c \in Fallback(assigned)}

\* ------------------------------------------------------------------------
\* Session lifecycle handlers
\* ------------------------------------------------------------------------
Ok == [status |-> 200, success |-> TRUE]
BadRequest == [status |-> 400, success |-> FALSE]

\* the session object POST /api/session/create builds
NewSession(body, sessionId, assignedCondition, conditionForced, now) ==
  [session_id |-> sessionId,
   prolific_pid |-> Either(body, "prolific_pid", "prolificPid", Null),
   study_id |-> Either(body, "study_id", "studyId", Null),
   condition_code |-> assignedCondition,
   condition_forced |-> conditionForced,
   started_at |-> now,
   completed_at |-> NullTime,
   is_complete |-> FALSE,
   consent_given |-> FALSE]

\* POST /api/session/create
Create(body) ==
  LET sessionId == nextId
      requestedCondition == Either(body, "condition_code", "condition", Null)
      isValidCondition == requestedCondition \in Conditions
      allSessions == IndexValues(sessionIndex)
  IN \E r \in (IF isValidCondition
               THEN {[cond |-> requestedCondition, block |-> currentBlock]}
               ELSE blockRandomize(allSessions, currentBlock)) :
       LET session == NewSession(body, sessionId, r.cond, isValidCondition, Now)
       IN /\ currentBlock' = r.block
          /\ sessionsLog' = appendJsonl(sessionsLog, session)
          /\ sessionIndex' = IndexPut(sessionIndex, sessionId, session)
          /\ nextId' = nextId + 1
          /\ req' = [op |-> "create", body |-> body]
          /\ resp' = [status |-> 200, success |-> TRUE,
                      session_id |-> sessionId, condition |-> r.cond]
          /\ UNCHANGED <<updatesLog, eventLogs>>

\* sessionIndex[session_id] exists, for the session_id of a request body
Cached(body) == "session_id" \in DOMAIN body /\ IndexHas(sessionIndex, body.session_id)

\* Object.assign(sessionIndex[id], patch)
IndexAssign(idx, id, patch) == IndexPut(idx, id, Assign(IndexGet(idx, id), patch))

ConsentPatch_Toggle(entry) == [consent_given |-> ~Field(entry, "consent_given", FALSE)]
\* sessionIndex[session_id].consent_given = true
ConsentPatch(entry) == [consent_given |-> TRUE]

\* POST /api/session/consent
Consent(body) ==
  LET update == Assign(Pick(body, {"session_id"}),
                       [update_type |-> "consent", consent_given |-> TRUE])
  IN /\ updatesLog' = appendJsonl(updatesLog, update)
     /\ sessionIndex' = IF Cached(body)
                        THEN IndexAssign(sessionIndex, body.session_id,
                                         ConsentPatch(IndexGet(sessionIndex, body.session_id)))
                        ELSE sessionIndex
     /\ req' = [op |-> "consent", body |-> body]
     /\ resp' = Ok
     /\ UNCHANGED <<sessionsLog, eventLogs, currentBlock, nextId>>

ProgressUpdate_EmptyForm(body) ==
  [session_id |-> body.session_id,
   update_type |-> "progress",
   currentPageIndex |-> Field(body, "currentPageIndex", 0),
   currentPageId |-> Field(body, "currentPageId", Null),
   formData |-> EmptyObj]

\* the update record POST /api/session/progress builds
ProgressUpdate(body) ==
  [session_id |-> body.session_id,
   update_type |-> "progress",
   currentPageIndex |-> Field(body, "currentPageIndex", 0),
   currentPageId |-> Field(body, "currentPageId", Null),
   formData |-> Field(body, "formData", EmptyObj)]

ProgressPatch_WholeRecord(update) == update
\* what the progress handler writes to the cached entry of the session
ProgressPatch(update) == Pick(update, {"currentPageIndex", "currentPageId", "formData"})

\* POST /api/session/progress
Progress(body) ==
  IF "session_id" \notin DOMAIN body
  THEN /\ req' = [op |-> "progress", body |-> body]
       /\ resp' = BadRequest
       /\ UNCHANGED <<sessionsLog, updatesLog, eventLogs, sessionIndex, currentBlock, nextId>>
  ELSE LET update == ProgressUpdate(body)
       IN /\ updatesLog' = appendJsonl(updatesLog, update)
          /\ sessionIndex' =
               IF Cached(body)
               THEN IndexAssign(sessionIndex, body.session_id, ProgressPatch(update))
               ELSE sessionIndex
          /\ req' = [op |-> "progress", body |-> body]
          /\ resp' = Ok
          /\ UNCHANGED <<sessionsLog, eventLogs, currentBlock, nextId>>

Summary_WholeBody(body) == Assign(body, [totalErrors |-> Field(body, "totalErrors", 0)])
\* the behavioural summary fields shared by the completion and snapshot records
Summary(body) ==
  [totalDurationMs |-> Field(body, "totalDurationMs", 0),
   applicationDurationMs |-> Field(body, "applicationDurationMs", 0),
   totalDocTimeMs |-> Field(body, "totalDocTimeMs", 0),
   totalDocOpens |-> Field(body, "totalDocOpens", 0),
   totalErrors |-> Field(body, "totalErrors", 0),
   errorCountsByPage |-> Field(body, "errorCountsByPage", EmptyObj),
   errorCountsByField |-> Field(body, "errorCountsByField", EmptyObj),
   pageTimings |-> Field(body, "pageTimings", <<>>),
   docInteractions |-> Field(body, "docInteractions", <<>>),
   formResponses |-> Field(body, "formResponses", EmptyObj)]

\* req.body.a || req.body.b || 0 over two optional numeric fields
EitherNum(body, k1, k2) ==
  IF Field(body, k1, 0) # 0 THEN body[k1] ELSE Field(body, k2, 0)

\* POST /api/session/complete
Complete(body) ==
  LET completion ==
        Assign(Assign(Pick(body, {"session_id"}), Summary(body)),
               [update_type |-> "complete",
                completed_at |-> Now,
                is_complete |-> TRUE,
                total_duration_ms |-> EitherNum(body, "totalDurationMs", "total_duration_ms"),
                total_errors |-> EitherNum(body, "totalErrors", "total_errors")])
  IN /\ updatesLog' = appendJsonl(updatesLog, completion)
     /\ sessionIndex' = IF Cached(body)
                        THEN IndexAssign(sessionIndex, body.session_id, completion)
                        ELSE sessionIndex
     /\ req' = [op |-> "complete", body |-> body]
     /\ resp' = Ok
     /\ UNCHANGED <<sessionsLog, eventLogs, currentBlock, nextId>>

SnapshotMark_Reopens ==
  [update_type |-> "snapshot", snapshot_at |-> Now, is_complete |-> FALSE]
\* the fields that mark a snapshot record
SnapshotMark == [update_type |-> "snapshot", snapshot_at |-> Now]

SnapshotApplies_Always(entry) == TRUE
\* the guard of the snapshot handler on the cached entry: !entry.is_complete
SnapshotApplies(entry) == ~Field(entry, "is_complete", FALSE)

\* POST /api/session/snapshot
Snapshot(body) ==
  IF "session_id" \notin DOMAIN body
  THEN /\ req' = [op |-> "snapshot", body |-> body]
       /\ resp' = BadRequest
       /\ UNCHANGED <<sessionsLog, updatesLog, eventLogs, sessionIndex, currentBlock, nextId>>
  ELSE LET snapshot ==
             Assign([session_id |-> body.session_id], Assign(Summary(body),
               Assign(SnapshotMark,
                      [total_duration_ms |-> Field(body, "totalDurationMs", 0),
                       total_errors |-> Field(body, "totalErrors", 0)])))
       IN /\ updatesLog' = appendJsonl(updatesLog, snapshot)
          /\ sessionIndex' =
               IF Cached(body) /\ SnapshotApplies(IndexGet(sessionIndex, body.session_id))
               THEN IndexAssign(sessionIndex, body.session_id, snapshot)
               ELSE sessionIndex
          /\ req' = [op |-> "snapshot", body |-> body]
          /\ resp' = Ok
          /\ UNCHANGED <<sessionsLog, eventLogs, currentBlock, nextId>>

\* ------------------------------------------------------------------------
\* Batch event ingestion
\* ------------------------------------------------------------------------
EventFiles ==
  {"page_events.jsonl", "click_events.jsonl", "visibility_events.jsonl",
   "scroll_events.jsonl", "field_events.jsonl", "form_responses.jsonl",
   "navigation_events.jsonl", "document_events.jsonl", "validation_events.jsonl",
   "misc_events.jsonl"}

fileMap ==
  [page |-> "page_events.jsonl", click |-> "click_events.jsonl",
   visibility |-> "visibility_events.jsonl", scroll |-> "scroll_events.jsonl",
   field |-> "field_events.jsonl", form_response |-> "form_responses.jsonl",
   navigation |-> "navigation_events.jsonl", document |-> "document_events.jsonl",
   validation |-> "validation_events.jsonl"]

\* fileMap[event.type] || 'misc_events.jsonl'
FileOf(event) ==
  IF "type" \in DOMAIN event /\ event.type \in DOMAIN fileMap
  THEN fileMap[event.type] ELSE "misc_events.jsonl"

RECURSIVE StoreEvents(_, _, _, _)
\* the for-loop of the batch handler from event i on
StoreEvents(logs, session_id, events, i) ==
  IF i > Len(events) THEN logs
  ELSE LET file == FileOf(events[i])
           record == Assign([session_id |-> session_id], events[i])
       IN StoreEvents([logs EXCEPT ![file] = appendJsonl(logs[file], record)],
                      session_id, events, i + 1)

\* POST /api/events/batch (the field events of a body is an array; a body
\* whose events is not an array carries it as eventsNotArray)
EventsBatch(body) ==
  /\ req' = [op |-> "events", body |-> body]
  /\ IF "session_id" \notin DOMAIN body \/ "events" \notin DOMAIN body
     THEN /\ resp' = BadRequest
          /\ UNCHANGED eventLogs
     ELSE /\ eventLogs' = StoreEvents(eventLogs, body.session_id, body.events, 1)
          /\ resp' = [status |-> 200, success |-> TRUE, count |-> Len(body.events)]
  /\ UNCHANGED <<sessionsLog, updatesLog, sessionIndex, currentBlock, nextId>>

\* process restart: module state is rebuilt, the files stay
Restart ==
  /\ sessionIndex' = loadSessionIndex(sessionsLog)
  /\ currentBlock' = <<>>
  /\ req' = [op |-> "restart"]
  /\ resp' = [status |-> 0]
  /\ UNCHANGED <<sessionsLog, updatesLog, eventLogs, nextId>>

\* ------------------------------------------------------------------------
\* Merged view
\* ------------------------------------------------------------------------
MergeUpdate_Replace(target, u) == u
\* Object.assign(map[u.session_id], u)
MergeUpdate(target, u) == Assign(target, u)

MergeInto_Upsert(map, u) ==
  IF "session_id" \in DOMAIN u
  THEN IndexPut(map, u.session_id,
                MergeUpdate(IF IndexHas(map, u.session_id)
                            THEN IndexGet(map, u.session_id) ELSE EmptyObj, u))
  ELSE map
\* if (map[u.session_id]) Object.assign(map[u.session_id], u)
MergeInto(map, u) ==
  IF "session_id" \in DOMAIN u /\ IndexHas(map, u.session_id)
  THEN IndexPut(map, u.session_id, MergeUpdate(IndexGet(map, u.session_id), u))
  ELSE map

RECURSIVE ApplyUpdates(_, _, _)
ApplyUpdates(map, updates, i) ==
  IF i > Len(updates) THEN map
  ELSE ApplyUpdates(MergeInto(map, updates[i]), updates, i + 1)

MergedMap(sessions, updates) == ApplyUpdates(loadSessionIndex(sessions), updates, 1)

getMergedSessions == IndexValues(MergedMap(sessionsLog, updatesLog))

\* ------------------------------------------------------------------------
\* Resume
\* ------------------------------------------------------------------------
LastMatch_First(all, pid) ==
  LET matches == SelectSeq(all, LAMBDA x : Field(x, "prolific_pid", Null) = pid)
  IN IF Len(matches) > 0 THEN <<matches[1]>> ELSE <<>>

\* the last element of all with prolific_pid = pid (<<>> when there is none)
LastMatch(all, pid) ==
  LET matches == SelectSeq(all, LAMBDA x : Field(x, "prolific_pid", Null) = pid)
  IN IF Len(matches) > 0 THEN <<matches[Len(matches)]>> ELSE <<>>

\* all.find(s => s.session_id === sid)
FindById(all, sid) ==
  LET hits == SelectSeq(all, LAMBDA x : "session_id" \in DOMAIN x /\ x.session_id = sid)
  IN IF Len(hits) > 0 THEN <<hits[1]>> ELSE <<>>

\* pid && pid !== 'unknown'
UsesPid(query) == "pid" \in DOMAIN query /\ query.pid # "unknown"

\* the session GET /api/session/resume resolves (<<>> when it finds none)
Resolve(query, all) ==
  LET byPid == IF UsesPid(query) THEN LastMatch(all, query.pid) ELSE <<>>
  IN IF byPid # <<>> THEN byPid
     ELSE IF "sid" \in DOMAIN query THEN FindById(all, query.sid)
     ELSE <<>>

ResumeResponse(query, all) ==
  IF "pid" \notin DOMAIN query /\ "sid" \notin DOMAIN query
  THEN [status |-> 200, found |-> FALSE]
  ELSE LET found == Resolve(query, all)
       IN IF found = <<>>
          THEN [status |-> 200, found |-> FALSE]
          ELSE LET session == found[1]
               IN [status |-> 200,
                   found |-> TRUE,
                   session_id |-> session.session_id,
                   condition |-> Field(session, "condition_code", "self"),
                   currentPageIndex |-> Field(session, "currentPageIndex", 0),
                   formData |-> Field(session, "formData", EmptyObj),
                   is_complete |-> Field(session, "is_complete", FALSE)]

\* GET /api/session/resume
Resume(query) ==
  /\ req' = [op |-> "resume", query |-> query]
  /\ resp' = ResumeResponse(query, getMergedSessions)
  /\ UNCHANGED <<sessionsLog, updatesLog, eventLogs, sessionIndex, currentBlock, nextId>>

\* ------------------------------------------------------------------------
\* Requests of the session-lifecycle specification
\* ------------------------------------------------------------------------
\* ids that a client can hold, and one that no session has
KnownIds == {sessionsLog[i].session_id : i \in 1..Len(sessionsLog)}
TargetIds == KnownIds \cup {GhostId}

ParticipantBody == [prolificPid |-> "p1", studyId |-> "st1", condition |-> "self"]

CreateBodies ==
  {ParticipantBody,
   [prolificPid |-> "unknown", studyId |-> "unknown", condition |-> "average"]}

ProgressBodies(sid) ==
  {[session_id |-> sid, currentPageIndex |-> 3, currentPageId |-> "applicant_details",
    formData |-> [a |-> "x"]],
   [session_id |-> sid, currentPageIndex |-> 12, formData |-> [a |-> "y"]]}

SnapshotBody(sid) ==
  [session_id |-> sid, totalDurationMs |-> 4, applicationDurationMs |-> 2,
   totalErrors |-> 1, errorCountsByPage |-> [applicant_details |-> 1],
   pageTimings |-> <<[pageId |-> "applicant_details", durationMs |-> 2]>>,
   formResponses |-> <<[key |-> "applicant_details", val |-> [full_name |-> Str("n")]]>>]

CompleteBody(sid) ==
  [session_id |-> sid, totalDurationMs |-> 9, applicationDurationMs |-> 5,
   totalDocTimeMs |-> 1, totalDocOpens |-> 1,
   pageTimings |-> <<[pageId |-> "applicant_details", durationMs |-> 5],
                     [pageId |-> "application_submitted", durationMs |-> 1]>>,
   docInteractions |-> <<[docId |-> "water_bill", durationMs |-> 1]>>,
   formResponses |-> <<[key |-> "applicant_details", val |-> [full_name |-> Str("m")]]>>]

ResumeQueries ==
  LET pids == {<<>>} \cup {[pid |-> p] : p \in {"p1", "unknown"}}
      sids == {<<>>} \cup {[sid |-> i] : i \in TargetIds}
  IN {Assign(p, q) : p \in pids, q \in sids}

NoProbe == [fn |-> "none"]

InitServer ==
  /\ sessionsLog = <<>>
  /\ updatesLog = <<>>
  /\ eventLogs = [f \in EventFiles |-> <<>>]
  /\ sessionIndex = <<>>
  /\ currentBlock = <<>>
  /\ nextId = 1
  /\ req = [op |-> "none"]
  /\ resp = [status |-> 0]

NoCookie == 0
\* no page of the experiment is open
NoBrowser == [open |-> FALSE]
NoTabs == <<>>

Init == InitServer /\ probe = NoProbe /\ tabs = NoTabs /\ cookie = NoCookie /\ browser = NoBrowser

RECURSIVE SumLen(_, _)
SumLen(logs, files) ==
  IF files = {} THEN 0
  ELSE LET f == CHOOSE x \in files : TRUE
       IN Len(logs[f]) + SumLen(logs, files \ {f})

\* the number of event records stored
StoredEvents == SumLen(eventLogs, EventFiles)

EventBatches(sid) ==
  {[session_id |-> sid, events |-> <<[type |-> "page", pageId |-> "consent"],
                                     [type |-> "tick"]>>]}

CanCreate == Len(sessionsLog) < MaxSessions
CanUpdate == Len(updatesLog) < MaxUpdates
CanUpdateR == Len(updatesLog) < MaxResumeUpdates

AnyCreate == \E body \in CreateBodies : Create(body)
AnyConsent == \E sid \in TargetIds : Consent([session_id |-> sid])
AnyProgress == \E sid \in TargetIds : \E body \in ProgressBodies(sid) : Progress(body)
AnySnapshot == \E sid \in TargetIds : Snapshot(SnapshotBody(sid))
AnyComplete == \E sid \in TargetIds : Complete(CompleteBody(sid))

DoCreate == CanCreate /\ Create(ParticipantBody) /\ UNCHANGED <<probe, clientVars>>
DoConsent == CanUpdate /\ AnyConsent /\ UNCHANGED <<probe, clientVars>>
DoProgress == CanUpdate /\ AnyProgress /\ UNCHANGED <<probe, clientVars>>
DoSnapshot == CanUpdate /\ AnySnapshot /\ UNCHANGED <<probe, clientVars>>
DoComplete == CanUpdate /\ AnyComplete /\ UNCHANGED <<probe, clientVars>>

\* Ordinary traffic on the session store
Next ==
  \/ DoCreate
  \/ DoConsent
  \/ DoProgress
  \/ DoSnapshot
  \/ DoComplete

Spec == Init /\ [][Next]_vars

RCreate == CanCreate /\ AnyCreate /\ UNCHANGED <<probe, clientVars>>
RConsent == CanUpdateR /\ AnyConsent /\ UNCHANGED <<probe, clientVars>>
RProgress == CanUpdateR /\ AnyProgress /\ UNCHANGED <<probe, clientVars>>
RSnapshot == CanUpdateR /\ AnySnapshot /\ UNCHANGED <<probe, clientVars>>
RComplete == CanUpdateR /\ AnyComplete /\ UNCHANGED <<probe, clientVars>>
DoResume == (\E query \in ResumeQueries : Resume(query)) /\ UNCHANGED <<probe, clientVars>>
DoEvents ==
  /\ \E sid \in KnownIds : \E body \in EventBatches(sid) :
       /\ StoredEvents + Len(body.events) <= MaxEvents
       /\ EventsBatch(body)
  /\ UNCHANGED <<probe, clientVars>>

\* Ordinary traffic with event batches and resume requests
NextResume ==
  \/ RCreate
  \/ RConsent
  \/ RProgress
  \/ RSnapshot
  \/ RComplete
  \/ DoEvents
  \/ DoResume

SpecResume == Init /\ [][NextResume]_vars

\* ------------------------------------------------------------------------
\* Properties of the merged view and of the snapshot handler
\* ------------------------------------------------------------------------
\* the creation record of sid followed by its update records, in log order
RecordsOf(sid) ==
  SelectSeq(sessionsLog, LAMBDA x : x.session_id = sid)
    \o SelectSeq(updatesLog, LAMBDA u : "session_id" \in DOMAIN u /\ u.session_id = sid)

\* the value of field f in the last record of recs that has it
LastCarried(recs, f) ==
  LET i == CHOOSE k \in 1..Len(recs) :
             /\ f \in DOMAIN recs[k]
             /\ \A j \in (k + 1)..Len(recs) : f \notin DOMAIN recs[j]
  IN recs[i][f]

MergedOf(sid) == FindById(getMergedSessions, sid)[1]

\* C1: getMergedSessions is per-field last-write-wins: the merged session has
\* exactly the fields some record of the session carries, and each field has
\* the value of the last record (creation record, then updates in append
\* order) that carries it.
C1_PerFieldLastWriteWins ==
  \A sid \in KnownIds :
    LET recs == RecordsOf(sid)
        m == MergedOf(sid)
    IN /\ FindById(getMergedSessions, sid) # <<>>
       /\ DOMAIN m = UNION {DOMAIN recs[k] : k \in 1..Len(recs)}
       /\ \A f \in DOMAIN m : m[f] = LastCarried(recs, f)

\* an update A = {x, y} followed by an update B = {x} with another x: the
\* merged session has B's x and A's y
C1_Witness ==
  \E sid \in KnownIds :
    LET recs == RecordsOf(sid)
    IN /\ Len(recs) >= 3
       /\ LET A == recs[Len(recs) - 1]
              B == recs[Len(recs)]
          IN /\ \E x \in (DOMAIN A \cap DOMAIN B) \ {"session_id", "update_type", "_written_at"} :
                  A[x] # B[x] /\ MergedOf(sid)[x] = B[x]
             /\ \E y \in DOMAIN A \ DOMAIN B : MergedOf(sid)[y] = A[y]

\* an update record whose session_id has no creation record
IsOrphan(u) == "session_id" \notin DOMAIN u \/ u.session_id \notin KnownIds

\* C11: orphan protection: getMergedSessions has exactly one merged session
\* per distinct session_id of the creation log, in creation order, and is what
\* it would be with every orphan update record deleted from the update log.
C11_OrphanProtection ==
  LET all == getMergedSessions
      kept == SelectSeq(updatesLog, LAMBDA u : ~IsOrphan(u))
  IN /\ Len(all) = Cardinality(KnownIds)
     /\ {all[i].session_id : i \in 1..Len(all)} = KnownIds
     /\ all = IndexValues(MergedMap(sessionsLog, kept))

\* an orphan update record sits in the update log before an update record of
\* a session that exists
C11_Witness ==
  \E i, j \in 1..Len(updatesLog) :
    /\ i < j
    /\ IsOrphan(updatesLog[i])
    /\ ~IsOrphan(updatesLog[j])

\* a record without its write stamp
Unstamped(r) == [k \in DOMAIN r \ {"_written_at"} |-> r[k]]

UnstampedAll(records) == [i \in 1..Len(records) |-> Unstamped(records[i])]

\* C13: handling the consent request that was handled last once more leaves
\* the session index and (write stamps apart) the merged view of every session
\* as they are, and appends one more copy of the consent record.
C13_ConsentIdempotent ==
  [][(req.op = "consent" /\ req'.op = "consent" /\ req'.body = req.body) =>
       /\ sessionIndex' = sessionIndex
       /\ UnstampedAll(IndexValues(MergedMap(sessionsLog', updatesLog')))
            = UnstampedAll(getMergedSessions)
       /\ Len(updatesLog') = Len(updatesLog) + 1
       /\ SubSeq(updatesLog', 1, Len(updatesLog)) = updatesLog
       /\ Unstamped(updatesLog'[Len(updatesLog')]) = Unstamped(updatesLog[Len(updatesLog)])]_vars

\* the consent of a session that exists has been handled twice in a row
C13_Witness ==
  /\ req.op = "consent"
  /\ Cached(req.body)
  /\ IndexGet(sessionIndex, req.body.session_id).consent_given
  /\ Len(updatesLog) >= 2
  /\ \A i \in {Len(updatesLog) - 1, Len(updatesLog)} :
       /\ updatesLog[i].update_type = "consent"
       /\ updatesLog[i].session_id = req.body.session_id

AggregateFields ==
  {"totalDurationMs", "applicationDurationMs", "totalDocTimeMs", "totalDocOpens",
   "totalErrors", "errorCountsByPage", "errorCountsByField", "pageTimings",
   "docInteractions", "formResponses"}

IsCompletion(u) == Field(u, "update_type", "") = "complete"

\* C2: once a completion record of a session is in the update log, the
\* behavioural aggregates of the session in the merged view are those of its
\* (last) completion record.
C2_SnapshotNeverOverwritesCompletion ==
  \A sid \in KnownIds :
    LET done == SelectSeq(RecordsOf(sid), IsCompletion)
    IN Len(done) > 0 =>
         \A f \in AggregateFields : MergedOf(sid)[f] = done[Len(done)][f]

\* C3: a snapshot request whose session is cached as complete, or is not
\* cached, leaves the session index as it is and still appends its record;
\* any snapshot request leaves the entries of the other sessions as they are.
C3_SnapshotGuardsCache ==
  [][req'.op = "snapshot" /\ "session_id" \in DOMAIN req'.body =>
       LET sid == req'.body.session_id
       IN /\ Len(updatesLog') = Len(updatesLog) + 1
          /\ SubSeq(updatesLog', 1, Len(updatesLog)) = updatesLog
          /\ updatesLog'[Len(updatesLog')].update_type = "snapshot"
          /\ updatesLog'[Len(updatesLog')].session_id = sid
          /\ IndexKeys(sessionIndex') = IndexKeys(sessionIndex)
          /\ \A id \in IndexKeys(sessionIndex) :
               IndexGet(sessionIndex', id) # IndexGet(sessionIndex, id) =>
                 id = sid /\ ~IndexGet(sessionIndex, id).is_complete
          /\ (~IndexHas(sessionIndex, sid) \/ IndexGet(sessionIndex, sid).is_complete) =>
               sessionIndex' = sessionIndex]_vars

\* a snapshot has just been handled for a session cached as complete, and the
\* cached aggregates are still those of the completion
C3_Witness ==
  /\ req.op = "snapshot"
  /\ Cached(req.body)
  /\ LET entry == IndexGet(sessionIndex, req.body.session_id)
     IN /\ entry.is_complete
        /\ entry.update_type = "complete"
        /\ entry.totalDurationMs # Field(req.body, "totalDurationMs", 0)
  /\ updatesLog[Len(updatesLog)].update_type = "snapshot"
  /\ updatesLog[Len(updatesLog)].session_id = req.body.session_id

\* ------------------------------------------------------------------------
\* Completion status (server.js:1417-1458 and the variant at 3074-3110)
\* ------------------------------------------------------------------------
\* formResponses is an object in property order:
\* <<[key |-> pageId, val |-> fields]>>.
ObjValues(obj) == [i \in 1..Len(obj) |-> obj[i].val]

RECURSIVE AssignAll(_, _, _)
\* pages.forEach(pageData => Object.assign(responses, pageData)) from i on
AssignAll(responses, pages, i) ==
  IF i > Len(pages) THEN responses
  ELSE AssignAll(Assign(responses, pages[i]), pages, i + 1)

checkIneligible(session) ==
  IF "formResponses" \notin DOMAIN session THEN FALSE
  ELSE LET responses == AssignAll(EmptyObj, ObjValues(session.formResponses), 1)
       IN Field(responses, "is_eligible", JsNull) = Str("no")

SUBMISSION_INDEX == 12
SUBMISSION_INDEX_VARIANT == 14

postSubmissionPages ==
  {"application_submitted", "demographics", "attention_check", "feedback",
   "debrief", "completion"}

VisitedPages(session) ==
  IF "pageTimings" \in DOMAIN session
  THEN {session.pageTimings[i].pageId : i \in 1..Len(session.pageTimings)}
  ELSE {}

hasReachedSubmission(session) ==
  IF "application_submitted" \in VisitedPages(session) THEN TRUE
  ELSE IF Field(session, "currentPageId", Null) \in postSubmissionPages THEN TRUE
  ELSE Field(session, "currentPageIndex", 0) >= SUBMISSION_INDEX

hasReachedSubmissionVariant(session) ==
  IF "application_submitted" \in VisitedPages(session) THEN TRUE
  ELSE Field(session, "currentPageIndex", 0) >= SUBMISSION_INDEX_VARIANT

getCompletionStatus_CompleteFirst(session) ==
  IF Field(session, "is_complete", FALSE) THEN "complete"
  ELSE IF checkIneligible(session) THEN "ineligible"
  ELSE IF hasReachedSubmission(session) THEN "submitted"
  ELSE IF Field(session, "consent_given", FALSE) THEN "dropped"
  ELSE "incomplete"

getCompletionStatus(session) ==
  IF checkIneligible(session) THEN "ineligible"
  ELSE IF Field(session, "is_complete", FALSE) THEN "complete"
  ELSE IF hasReachedSubmission(session) THEN "submitted"
  ELSE IF Field(session, "consent_given", FALSE) THEN "dropped"
  ELSE "incomplete"

getCompletionStatusVariant(session) ==
  IF checkIneligible(session) THEN "ineligible"
  ELSE IF Field(session, "is_complete", FALSE) THEN "complete"
  ELSE IF hasReachedSubmissionVariant(session) THEN "submitted"
  ELSE IF Field(session, "consent_given", FALSE) THEN "dropped"
  ELSE "incomplete"

\* the optional field k with each value of vals, or no field at all
Optional(k, vals) == {EmptyObj} \cup {k :> v : v \in vals}

ProbeFormResponses ==
  {<<>>,
   <<[key |-> "applicant_details", val |-> [full_name |-> Str("n")]]>>,
   <<[key |-> "eligibility_rules", val |-> [is_eligible |-> Str("no")]]>>,
   <<[key |-> "eligibility_rules", val |-> [is_eligible |-> Str("yes")]]>>,
   <<[key |-> "applicant_details", val |-> [is_eligible |-> Str("no")]],
     [key |-> "eligibility_rules", val |-> [is_eligible |-> Str("yes")]]>>,
   <<[key |-> "eligibility_rules", val |-> [is_eligible |-> Str("no")]],
     [key |-> "vehicle_info", val |-> [plate |-> Str("x")]]>>}

ProbePageTimings ==
  {<<>>,
   <<[pageId |-> "applicant_details", durationMs |-> 2]>>,
   <<[pageId |-> "application_submitted", durationMs |-> 1],
     [pageId |-> "demographics", durationMs |-> 1]>>}

MaxPageIndex == 14

\* merged sessions as the classifier can be given them
ProbeSessions ==
  {Assign(Assign(Assign(Assign([is_complete |-> c, consent_given |-> g], fr), pt), id), ix) :
     c \in BOOLEAN, g \in BOOLEAN,
     fr \in Optional("formResponses", ProbeFormResponses),
     pt \in Optional("pageTimings", ProbePageTimings),
     id \in Optional("currentPageId", {Null, "applicant_details", "demographics"}),
     ix \in Optional("currentPageIndex", {0, SUBMISSION_INDEX - 1} \cup (SUBMISSION_INDEX..MaxPageIndex))}

InitStatus ==
  /\ InitServer
  /\ \E session \in ProbeSessions : probe = [fn |-> "session", arg |-> session]
  /\ tabs = NoTabs /\ cookie = NoCookie /\ browser = NoBrowser

Classify ==
  /\ probe.fn = "session"
  /\ probe' = [fn |-> "getCompletionStatus", arg |-> probe.arg,
               out |-> getCompletionStatus(probe.arg)]
  /\ UNCHANGED <<serverVars, clientVars>>

ClassifyVariant ==
  /\ probe.fn = "session"
  /\ probe' = [fn |-> "getCompletionStatusVariant", arg |-> probe.arg,
               out |-> getCompletionStatusVariant(probe.arg)]
  /\ UNCHANGED <<serverVars, clientVars>>

NextStatus == Classify \/ ClassifyVariant

SpecStatus == InitStatus /\ [][NextStatus]_vars

\* the conditions of the five classes, stated on the session itself
SaysIneligible(session) ==
  /\ "formResponses" \in DOMAIN session
  /\ \E i \in 1..Len(session.formResponses) :
       /\ "is_eligible" \in DOMAIN session.formResponses[i].val
       /\ session.formResponses[i].val.is_eligible = Str("no")
       /\ \A j \in (i + 1)..Len(session.formResponses) :
            "is_eligible" \notin DOMAIN session.formResponses[j].val

SaysSubmitted(session, threshold, byPageId) ==
  \/ /\ "pageTimings" \in DOMAIN session
     /\ \E i \in 1..Len(session.pageTimings) :
          session.pageTimings[i].pageId = "application_submitted"
  \/ /\ byPageId
     /\ "currentPageId" \in DOMAIN session
     /\ session.currentPageId \in postSubmissionPages
  \/ /\ "currentPageIndex" \in DOMAIN session
     /\ session.currentPageIndex >= threshold

FirstMatch(session, threshold, byPageId) ==
  CASE SaysIneligible(session) -> "ineligible"
    [] ~SaysIneligible(session) /\ session.is_complete -> "complete"
    [] ~SaysIneligible(session) /\ ~session.is_complete
         /\ SaysSubmitted(session, threshold, byPageId) -> "submitted"
    [] ~SaysIneligible(session) /\ ~session.is_complete
         /\ ~SaysSubmitted(session, threshold, byPageId)
         /\ session.consent_given -> "dropped"
    [] OTHER -> "incomplete"

\* C4: getCompletionStatus returns exactly one of the five classes, the first
\* in the order ineligible, complete, submitted, dropped, incomplete whose
\* condition holds (in both generations of the classifier); so an ineligible
\* session is 'ineligible' whatever is_complete and currentPageIndex are, and
\* an unconsented session at or past the index threshold is 'submitted'.
C4_FirstMatchClassifier ==
  /\ probe.fn = "getCompletionStatus" =>
       /\ probe.out \in {"ineligible", "complete", "submitted", "dropped", "incomplete"}
       /\ probe.out = FirstMatch(probe.arg, SUBMISSION_INDEX, TRUE)
       /\ SaysIneligible(probe.arg) => probe.out = "ineligible"
       /\ (/\ ~probe.arg.consent_given /\ ~probe.arg.is_complete
           /\ ~SaysIneligible(probe.arg)
           /\ Field(probe.arg, "currentPageIndex", 0) >= SUBMISSION_INDEX)
            => probe.out = "submitted"
  /\ probe.fn = "getCompletionStatusVariant" =>
       /\ probe.out = FirstMatch(probe.arg, SUBMISSION_INDEX_VARIANT, FALSE)
       /\ SaysIneligible(probe.arg) => probe.out = "ineligible"
       /\ (/\ ~probe.arg.consent_given /\ ~probe.arg.is_complete
           /\ ~SaysIneligible(probe.arg)
           /\ Field(probe.arg, "currentPageIndex", 0) >= SUBMISSION_INDEX_VARIANT)
            => probe.out = "submitted"

\* a complete session past the index threshold that answered "not eligible"
\* has been classified
C4_Witness ==
  /\ probe.fn = "getCompletionStatus"
  /\ probe.arg.is_complete
  /\ Field(probe.arg, "currentPageIndex", 0) >= SUBMISSION_INDEX
  /\ SaysIneligible(probe.arg)
  /\ probe.out = "ineligible"

\* ------------------------------------------------------------------------
\* Condition assignment: creates, forced and not, and process restarts
\* ------------------------------------------------------------------------
RequestedCondition(body) == Either(body, "condition_code", "condition", Null)
IsForced(body) == RequestedCondition(body) \in Conditions

OrganicBodies == {[prolificPid |-> "p1", studyId |-> "st1", condition |-> "default"]}
ForcedBodies ==
  {[prolificPid |-> "p2", condition |-> "self"], [condition_code |-> "average"]}

\* the condition codes of the creation log's non-forced records, in log order
Organic == Assigned(sessionsLog)
ForcedRecords == SelectSeq(sessionsLog, LAMBDA x : x.condition_forced)

CreateOrganic ==
  /\ Len(Organic) < MaxOrganic
  /\ \E body \in OrganicBodies : Create(body)
  /\ UNCHANGED <<probe, clientVars>>

CreateForced ==
  /\ Len(ForcedRecords) < MaxForced
  /\ \E body \in ForcedBodies : Create(body)
  /\ UNCHANGED <<probe, clientVars>>

DoRestart == Restart /\ UNCHANGED <<probe, clientVars>>

NextRand == CreateOrganic \/ CreateForced \/ DoRestart

SpecRand == Init /\ [][NextRand]_vars

PosInBlock == Len(Assigned(IndexValues(sessionIndex))) % ESTIMATION_BLOCK_SIZE
BlockLost ==
  \/ Len(currentBlock) # ESTIMATION_BLOCK_SIZE
  \/ ~Consistent(currentBlock, Assigned(IndexValues(sessionIndex)), PosInBlock)

C7_ForcedBypassesRandomizer ==
  [][(req'.op = "create" /\ IsForced(req'.body)) =>
       LET rec == sessionsLog'[Len(sessionsLog')]
       IN /\ Len(sessionsLog') = Len(sessionsLog) + 1
          /\ rec.condition_code = RequestedCondition(req'.body)
          /\ rec.condition_forced = TRUE
          /\ resp'.condition = RequestedCondition(req'.body)
          /\ IndexGet(sessionIndex', rec.session_id).condition_forced = TRUE
          /\ currentBlock' = currentBlock
          /\ Assigned(IndexValues(sessionIndex')) = Assigned(IndexValues(sessionIndex))
          /\ Assigned(sessionsLog') = Assigned(sessionsLog)
          /\ blockRandomize(IndexValues(sessionIndex'), currentBlock')
               = blockRandomize(IndexValues(sessionIndex), currentBlock)]_vars

\* a forced create has been handled in the middle of a cached block
C7_Witness ==
  /\ req.op = "create"
  /\ IsForced(req.body)
  /\ Len(currentBlock) = ESTIMATION_BLOCK_SIZE
  /\ PosInBlock = 2
  /\ sessionsLog[Len(sessionsLog)].condition_forced
  /\ sessionsLog[Len(sessionsLog)].condition_code # currentBlock[PosInBlock + 1]

\* ------------------------------------------------------------------------
\* Properties of resume
\* ------------------------------------------------------------------------
\* the positions in the creation log of the sessions of participant pid
CreatedBy(pid) == {i \in 1..Len(sessionsLog) : sessionsLog[i].prolific_pid = pid}
LastCreatedBy(pid) ==
  sessionsLog[CHOOSE i \in CreatedBy(pid) : \A j \in CreatedBy(pid) : j <= i].session_id

\* the response names session sid with the merged view's is_complete
Resolves(sid) ==
  /\ resp.found
  /\ resp.session_id = sid
  /\ resp.is_complete = MergedOf(sid).is_complete

\* the resolution rule, with the participant ids in pids looked up by pid
ResolutionRule(pids) ==
  req.op = "resume" =>
    LET q == req.query
    IN IF "pid" \in DOMAIN q /\ q.pid \in pids /\ CreatedBy(q.pid) # {}
       THEN Resolves(LastCreatedBy(q.pid))
       ELSE IF "sid" \in DOMAIN q /\ q.sid \in KnownIds
            THEN Resolves(q.sid)
            ELSE ~resp.found

ParticipantIds == {sessionsLog[i].prolific_pid : i \in 1..Len(sessionsLog)}

\* C9 as claimed: every given pid that some session has resolves to the last
\* session created with it, whatever sid is; else sid decides; else not found.
C9_ResumeResolution_AnyPid == ResolutionRule(ParticipantIds)

\* C9 as amended: the same rule for every given pid other than the placeholder
\* 'unknown'; a request with pid 'unknown' is resolved by sid alone.
C9_ResumeResolution == ResolutionRule(ParticipantIds \ {"unknown"})

\* two sessions of one participant exist and a resume naming the participant
\* and the first session's id has resolved to the second session
C9_Witness ==
  /\ req.op = "resume"
  /\ "pid" \in DOMAIN req.query /\ "sid" \in DOMAIN req.query
  /\ Cardinality(CreatedBy(req.query.pid)) = 2
  /\ req.query.sid = sessionsLog[1].session_id
  /\ resp.found /\ resp.session_id = sessionsLog[2].session_id

\* the progress records of session sid, in append order
ProgressOf(sid) ==
  SelectSeq(updatesLog, LAMBDA u : u.session_id = sid /\ u.update_type = "progress")

\* C10: a save-progress call stores the page index and form data it was
\* given, and a resume by session id reports those of the session's most
\* recent save-progress record, whatever consent, snapshot, completion and
\* event requests for this or other sessions came in between or after.
C10_SaveResumeRoundTrip ==
  /\ (req.op = "progress" /\ resp.status = 200) =>
       LET u == updatesLog[Len(updatesLog)]
       IN /\ u.session_id = req.body.session_id
          /\ u.currentPageIndex = req.body.currentPageIndex
          /\ u.formData = req.body.formData
  /\ (/\ req.op = "resume"
      /\ DOMAIN req.query = {"sid"}
      /\ req.query.sid \in KnownIds
      /\ Len(ProgressOf(req.query.sid)) > 0) =>
       LET saves == ProgressOf(req.query.sid)
           last == saves[Len(saves)]
       IN /\ resp.found
          /\ resp.session_id = req.query.sid
          /\ resp.currentPageIndex = last.currentPageIndex
          /\ resp.formData = last.formData

\* progress saved at page 3 with formData {a: 'x'}, a later snapshot of the
\* same session, and a resume by session id that reports page 3 and {a: 'x'}
C10_Witness ==
  /\ req.op = "resume"
  /\ DOMAIN req.query = {"sid"}
  /\ Len(updatesLog) = 2
  /\ updatesLog[1].session_id = req.query.sid
  /\ updatesLog[1].update_type = "progress"
  /\ updatesLog[2].session_id = req.query.sid
  /\ updatesLog[2].update_type = "snapshot"
  /\ resp.found
  /\ resp.currentPageIndex = 3
  /\ resp.formData = [a |-> "x"]

\* ------------------------------------------------------------------------
\* Tracker session start-up (tracker.js:55-124) against the server
\* ------------------------------------------------------------------------
Tabs == 1..MaxTabs

\* a tab: where initSession stands, the PROLIFIC_PID of its URL (Null when
\* the URL has none) and this.sessionId (NoCookie while null)
ClosedTab == [pc |-> "closed", pid |-> Null, sessionId |-> NoCookie]

InitClient ==
  /\ InitServer
  /\ probe = NoProbe
  /\ tabs = [t \in Tabs |-> ClosedTab]
  /\ cookie = NoCookie
  /\ browser = NoBrowser

\* the participant opens or reloads the study page
Open(t) ==
  /\ tabs[t].pc \in {"closed", "running", "already_complete", "failed"}
  /\ \E pid \in {"p1", Null} :
       tabs' = [tabs EXCEPT ![t] = [pc |-> "resume", pid |-> pid, sessionId |-> NoCookie]]
  /\ UNCHANGED <<serverVars, probe, cookie, browser>>

\* resumeParams of initSession
ResumeParams(t) ==
  IF tabs[t].pid # Null THEN [pid |-> tabs[t].pid]
  ELSE IF cookie # NoCookie THEN [sid |-> cookie]
  ELSE EmptyObj

\* step 1 of initSession with no resume parameter: straight to create
SkipResume(t) ==
  /\ tabs[t].pc = "resume"
  /\ ResumeParams(t) = EmptyObj
  /\ tabs' = [tabs EXCEPT ![t].pc = "create"]
  /\ UNCHANGED <<serverVars, probe, cookie, browser>>

\* step 1 of initSession: the resume call and what the tab does with the answer
TryResume(t) ==
  /\ tabs[t].pc = "resume"
  /\ ResumeParams(t) # EmptyObj
  /\ Resume(ResumeParams(t))
  /\ IF resp'.found
     THEN IF resp'.is_complete
          THEN /\ tabs' = [tabs EXCEPT ![t].pc = "already_complete"]
               /\ UNCHANGED cookie
          ELSE /\ tabs' = [tabs EXCEPT ![t].pc = "running",
                                       ![t].sessionId = resp'.session_id]
               /\ cookie' = resp'.session_id
     ELSE /\ tabs' = [tabs EXCEPT ![t].pc = "create"]
          /\ UNCHANGED cookie
  /\ UNCHANGED <<probe, browser>>

\* the resume call throws (network error, non-JSON answer): the catch block
\* logs a warning and initSession goes on to create
ResumeFails(t) ==
  /\ tabs[t].pc = "resume"
  /\ ResumeParams(t) # EmptyObj
  /\ tabs' = [tabs EXCEPT ![t].pc = "create"]
  /\ UNCHANGED <<serverVars, probe, cookie, browser>>

\* the body of the create call of initSession
TrackerCreateBody(t) ==
  [prolificPid |-> IF tabs[t].pid # Null THEN tabs[t].pid ELSE "unknown",
   studyId |-> "unknown",
   condition |-> "default"]

\* step 2 of initSession: the create call
TryCreate(t) ==
  /\ tabs[t].pc = "create"
  /\ Len(sessionsLog) < MaxClientSessions
  /\ Create(TrackerCreateBody(t))
  /\ tabs' = [tabs EXCEPT ![t].pc = "running", ![t].sessionId = resp'.session_id]
  /\ cookie' = resp'.session_id
  /\ UNCHANGED <<probe, browser>>

\* the create call throws before it reaches the server: initSession returns null
CreateFails(t) ==
  /\ tabs[t].pc = "create"
  /\ tabs' = [tabs EXCEPT ![t].pc = "failed"]
  /\ UNCHANGED <<serverVars, probe, cookie, browser>>

\* the participant of a running tab finishes the study (completeSession)
Finish(t) ==
  /\ tabs[t].pc = "running"
  /\ ~MergedOf(tabs[t].sessionId).is_complete
  /\ Complete([session_id |-> tabs[t].sessionId])
  /\ UNCHANGED <<probe, clientVars>>

NextClient ==
  \E t \in Tabs :
    \/ Open(t)
    \/ SkipResume(t)
    \/ TryResume(t)
    \/ ResumeFails(t)
    \/ TryCreate(t)
    \/ CreateFails(t)
    \/ Finish(t)

SpecClient == InitClient /\ [][NextClient]_vars

\* C8: no external participant id has more than one creation record.
C8_OneSessionPerParticipant ==
  \A pid \in ParticipantIds \ {"unknown", Null} : Cardinality(CreatedBy(pid)) <= 1

\* ------------------------------------------------------------------------
\* Data export and maintenance routes
\* ------------------------------------------------------------------------
store == <<sessionsLog, updatesLog, eventLogs, sessionIndex, currentBlock, nextId>>

EXPORT_KEY == "research2025"

checkKey_Any(query) == TRUE
\* checkKey passes: req.query.key === EXPORT_KEY
checkKey(query) == "key" \in DOMAIN query /\ query.key = EXPORT_KEY

Forbidden == [status |-> 403, error |-> "Invalid export key"]

\* a route behind checkKey that only reads: op, its query, its 200 response
ReadRoute(op, query, response) ==
  /\ req' = [op |-> op, query |-> query]
  /\ resp' = IF checkKey(query) THEN response ELSE Forbidden
  /\ UNCHANGED store

\* GET /api/export/sessions
ExportSessions(query) ==
  ReadRoute("export/sessions", query, [status |-> 200, data |-> getMergedSessions])

\* the event tables of GET /api/export/all/json and GET /api/export/:table
VALID_FILES ==
  [page_events |-> "page_events.jsonl", click_events |-> "click_events.jsonl",
   visibility_events |-> "visibility_events.jsonl", scroll_events |-> "scroll_events.jsonl",
   field_events |-> "field_events.jsonl", form_responses |-> "form_responses.jsonl",
   navigation_events |-> "navigation_events.jsonl", document_events |-> "document_events.jsonl",
   validation_events |-> "validation_events.jsonl"]

\* GET /api/export/all/json
ExportAllJson(query) ==
  ReadRoute("export/all/json", query,
            [status |-> 200,
             data |-> [sessions |-> getMergedSessions,
                       events |-> [t \in DOMAIN VALID_FILES |-> eventLogs[VALID_FILES[t]]]]])

\* GET /api/export/:table (JSON format); the handler returns without
\* answering for the tables sessions, all and csv
ExportTable(query, table) ==
  ReadRoute("export/table", Assign(query, [table |-> table]),
            IF table \in {"sessions", "all", "csv"} THEN [status |-> 0]
            ELSE IF table \notin DOMAIN VALID_FILES THEN [status |-> 400, error |-> "Invalid table"]
            ELSE [status |-> 200, data |-> eventLogs[VALID_FILES[table]]])

\* the identity columns of GET /api/export/csv and the derived status
CsvRow(s) ==
  Assign(Pick(s, {"session_id", "prolific_pid", "study_id", "condition_code",
                  "condition_forced", "consent_given"}),
         [completion_status |-> getCompletionStatus(s)])

\* GET /api/export/csv: the identity and status columns of each row
ExportCsv(query) ==
  LET sessions == getMergedSessions
  IN ReadRoute("export/csv", query,
               [status |-> 200, rows |-> [i \in 1..Len(sessions) |-> CsvRow(sessions[i])]])

CountStatus(all, status) ==
  Cardinality({i \in 1..Len(all) : getCompletionStatus(all[i]) = status})

\* GET /api/stats: the session counts of the response
Stats(query) ==
  LET all == getMergedSessions
  IN ReadRoute("stats", query,
       [status |-> 200,
        total_sessions |-> Len(all),
        complete_sessions |-> CountStatus(all, "complete"),
        submitted_sessions |-> CountStatus(all, "submitted"),
        ineligible_sessions |-> CountStatus(all, "ineligible"),
        dropped_sessions |-> CountStatus(all, "dropped"),
        incomplete_sessions |-> CountStatus(all, "incomplete"),
        exploitable_sessions |-> CountStatus(all, "complete") + CountStatus(all, "submitted"),
        consented_sessions |->
          Cardinality({i \in 1..Len(all) : Field(all[i], "consent_given", FALSE)})])

\* GET /dashboard: a page that holds no stored data
Dashboard(query) == ReadRoute("dashboard", query, [status |-> 200, page |-> "dashboard"])

\* GET /api/list-sessions
ListSessions(query) ==
  ReadRoute("list-sessions", query,
    [status |-> 200,
     data |-> [i \in 1..Len(sessionsLog) |->
                 Assign(Pick(sessionsLog[i], {"session_id", "prolific_pid", "completion_status"}),
                        [completed_at |-> Field(sessionsLog[i], "completed_at", NullTime)])]])

CONFIRMATION == "i want to delete the data"

Confirmed_AnyText(body) == "confirmation" \in DOMAIN body
\* confirmation === 'i want to delete the data'
Confirmed(body) == "confirmation" \in DOMAIN body /\ body.confirmation = CONFIRMATION

\* POST /api/delete-all-data (every .jsonl file of the data directory is
\* unlinked; the count of files in the response is left out)
DeleteAllData(query, body) ==
  /\ req' = [op |-> "delete-all-data", query |-> query, body |-> body]
  /\ IF ~checkKey(query)
     THEN resp' = Forbidden /\ UNCHANGED store
     ELSE IF ~Confirmed(body)
     THEN resp' = [status |-> 400, error |-> "Invalid confirmation text"] /\ UNCHANGED store
     ELSE /\ sessionsLog' = <<>>
          /\ updatesLog' = <<>>
          /\ eventLogs' = [f \in EventFiles |-> <<>>]
          /\ sessionIndex' = <<>>
          /\ resp' = [status |-> 200, success |-> TRUE]
          /\ UNCHANGED <<currentBlock, nextId>>

\* POST /api/import-sessions
ImportSessions(query, body) ==
  /\ req' = [op |-> "import-sessions", query |-> query, body |-> body]
  /\ IF ~checkKey(query)
     THEN resp' = Forbidden /\ UNCHANGED store
     ELSE IF "sessions" \notin DOMAIN body \/ Len(body.sessions) = 0
     THEN resp' = [status |-> 400, error |-> "sessions array required"] /\ UNCHANGED store
     ELSE /\ sessionsLog' = [i \in 1..Len(body.sessions) |-> Stamp(body.sessions[i], Now)]
          /\ sessionIndex' = loadSessionIndex(body.sessions)
          /\ resp' = [status |-> 200, success |-> TRUE, imported |-> Len(body.sessions)]
          /\ UNCHANGED <<updatesLog, eventLogs, currentBlock, nextId>>

\* the files GET /api/remove-participant filters besides sessions.jsonl
REMOVE_FILTERED_EVENT_FILES == {"navigation_events.jsonl", "misc_events.jsonl"}

\* records.filter(r => !sessionIds.has(r.session_id))
WithoutSessions(records, sessionIds) ==
  SelectSeq(records, LAMBDA r : ~("session_id" \in DOMAIN r /\ r.session_id \in sessionIds))

IndexDelete_None(idx, sessionIds) == idx
\* sessionIds.forEach(sid => delete sessionIndex[sid])
IndexDelete(idx, sessionIds) ==
  SelectSeq(idx, LAMBDA e : e.key \notin sessionIds)

\* GET /api/remove-participant
RemoveParticipant(query) ==
  /\ req' = [op |-> "remove-participant", query |-> query]
  /\ IF ~checkKey(query)
     THEN resp' = Forbidden /\ UNCHANGED store
     ELSE IF "pid" \notin DOMAIN query
     THEN resp' = [status |-> 400, error |-> "pid query param required"] /\ UNCHANGED store
     ELSE LET toRemove == SelectSeq(sessionsLog,
                                    LAMBDA x : Field(x, "prolific_pid", Null) = query.pid)
              sessionIds == {toRemove[i].session_id : i \in 1..Len(toRemove)}
          IN IF Len(toRemove) = 0
             THEN resp' = [status |-> 404, error |-> "No sessions found"] /\ UNCHANGED store
             ELSE /\ sessionsLog' = SelectSeq(sessionsLog,
                                      LAMBDA x : Field(x, "prolific_pid", Null) # query.pid)
                  /\ updatesLog' = WithoutSessions(updatesLog, sessionIds)
                  /\ eventLogs' = [f \in EventFiles |->
                                     IF f \in REMOVE_FILTERED_EVENT_FILES
                                     THEN WithoutSessions(eventLogs[f], sessionIds)
                                     ELSE eventLogs[f]]
                  /\ sessionIndex' = IndexDelete(sessionIndex, sessionIds)
                  /\ resp' = [status |-> 200, success |-> TRUE,
                              removed_sessions |-> Len(toRemove),
                              session_ids |-> sessionIds]
                  /\ UNCHANGED <<currentBlock, nextId>>

\* ------------------------------------------------------------------------
\* Specification of the guarded routes: a store with few records, and every
\* export and maintenance route called with no key, a wrong key and the key
\* ------------------------------------------------------------------------
MaxAdminUpdates == 1

KeyQueries == {EmptyObj, [key |-> "wrong"], [key |-> EXPORT_KEY]}

ExportTables == {"page_events", "misc_events", "all"}

DeleteBodies ==
  {EmptyObj, [confirmation |-> "I want to delete the data"], [confirmation |-> CONFIRMATION]}

\* a backup of the first session, as a researcher restores it
BackupSession ==
  [session_id |-> 1, prolific_pid |-> "p1", study_id |-> "st1",
   condition_code |-> "self", condition_forced |-> TRUE]

ImportBodies == {EmptyObj, [sessions |-> <<>>], [sessions |-> <<BackupSession>>]}

RemoveQueries ==
  {Assign(q, p) : q \in KeyQueries, p \in {EmptyObj, [pid |-> "p1"], [pid |-> "p9"]}}

ACreate == nextId <= MaxSessions /\ AnyCreate /\ UNCHANGED <<probe, clientVars>>
AConsent == Len(updatesLog) < MaxAdminUpdates /\ AnyConsent /\ UNCHANGED <<probe, clientVars>>
AEvents ==
  /\ \E sid \in KnownIds : \E body \in EventBatches(sid) :
       /\ StoredEvents + Len(body.events) <= MaxEvents
       /\ EventsBatch(body)
  /\ UNCHANGED <<probe, clientVars>>
AExportSessions == (\E q \in KeyQueries : ExportSessions(q)) /\ UNCHANGED <<probe, clientVars>>
AExportAllJson == (\E q \in KeyQueries : ExportAllJson(q)) /\ UNCHANGED <<probe, clientVars>>
AExportCsv == (\E q \in KeyQueries : ExportCsv(q)) /\ UNCHANGED <<probe, clientVars>>
AExportTable ==
  (\E q \in KeyQueries : \E t \in ExportTables : ExportTable(q, t)) /\ UNCHANGED <<probe, clientVars>>
AStats == (\E q \in KeyQueries : Stats(q)) /\ UNCHANGED <<probe, clientVars>>
ADashboard == (\E q \in KeyQueries : Dashboard(q)) /\ UNCHANGED <<probe, clientVars>>
AListSessions == (\E q \in KeyQueries : ListSessions(q)) /\ UNCHANGED <<probe, clientVars>>
ADeleteAll ==
  (\E q \in KeyQueries : \E body \in DeleteBodies : DeleteAllData(q, body))
    /\ UNCHANGED <<probe, clientVars>>
AImport ==
  /\ nextId > 1
  /\ \E q \in KeyQueries : \E body \in ImportBodies : ImportSessions(q, body)
  /\ UNCHANGED <<probe, clientVars>>
ARemove == (\E q \in RemoveQueries : RemoveParticipant(q)) /\ UNCHANGED <<probe, clientVars>>

NextAdmin ==
  \/ ACreate
  \/ AConsent
  \/ AEvents
  \/ AExportSessions
  \/ AExportAllJson
  \/ AExportCsv
  \/ AExportTable
  \/ AStats
  \/ ADashboard
  \/ AListSessions
  \/ ADeleteAll
  \/ AImport
  \/ ARemove

SpecAdmin == Init /\ [][NextAdmin]_vars

GuardedOps ==
  {"export/sessions", "export/all/json", "export/csv", "export/table", "stats",
   "dashboard", "delete-all-data", "list-sessions", "import-sessions",
   "remove-participant"}

\* C15: a request to an export, stats, dashboard or maintenance route with a
\* missing or incorrect key is answered 403 with nothing but the error
\* message, and leaves every log and the session index as they are.
C15_ExportKeyEnforcement ==
  [][(req'.op \in GuardedOps /\ ~(Field(req'.query, "key", "") = EXPORT_KEY)) =>
       /\ resp' = Forbidden
       /\ sessionsLog' = sessionsLog
       /\ updatesLog' = updatesLog
       /\ eventLogs' = eventLogs
       /\ sessionIndex' = sessionIndex]_vars

\* delete-all-data with the exact phrase but a wrong key has just been
\* refused while the store holds a session and events
C15_Witness ==
  /\ req.op = "delete-all-data"
  /\ req.query = [key |-> "wrong"]
  /\ req.body = [confirmation |-> CONFIRMATION]
  /\ resp.status = 403
  /\ Len(sessionsLog) > 0
  /\ StoredEvents > 0

\* the records of every log category that carry one of the session ids
RecordsCarrying(ids) ==
  LET Hits(log) == {i \in 1..Len(log) :
                      "session_id" \in DOMAIN log[i] /\ log[i].session_id \in ids}
  IN [sessions |-> Hits(sessionsLog), updates |-> Hits(updatesLog)]
       @@ [f \in EventFiles |-> Hits(eventLogs[f])]

\* C16: after remove-participant has succeeded, no record of any log
\* category carries the session_id of a removed session, and the session
\* index has no entry for it.
C16_RemovalRemovesAllRecords ==
  (req.op = "remove-participant" /\ resp.status = 200) =>
     /\ \A c \in DOMAIN RecordsCarrying(resp.session_ids) :
          RecordsCarrying(resp.session_ids)[c] = {}
     /\ IndexKeys(sessionIndex) \cap resp.session_ids = {}

\* C17: delete-all-data with the key answers 400 and changes nothing unless
\* the body's confirmation is exactly the phrase; with the phrase every log
\* and the session index are empty afterwards, so the merged view is empty
\* and no resume request finds a session.
C17_DeleteNeedsExactPhrase ==
  [][(req'.op = "delete-all-data" /\ Field(req'.query, "key", "") = EXPORT_KEY) =>
       IF Field(req'.body, "confirmation", "") = "i want to delete the data"
       THEN /\ resp'.status = 200
            /\ sessionsLog' = <<>>
            /\ updatesLog' = <<>>
            /\ \A f \in EventFiles : eventLogs'[f] = <<>>
            /\ sessionIndex' = <<>>
            /\ IndexValues(MergedMap(sessionsLog', updatesLog')) = <<>>
            /\ \A q \in {[pid |-> "p1"], [pid |-> "unknown"]}
                          \cup {[sid |-> i] : i \in 1..(MaxSessions + 1)} :
                 ~ResumeResponse(q, IndexValues(MergedMap(sessionsLog', updatesLog'))).found
       ELSE /\ resp'.status = 400
            /\ sessionsLog' = sessionsLog
            /\ updatesLog' = updatesLog
            /\ eventLogs' = eventLogs
            /\ sessionIndex' = sessionIndex]_vars

\* the data of a store that held sessions has just been deleted
C17_Witness ==
  /\ req.op = "delete-all-data"
  /\ resp.status = 200
  /\ nextId > 1
  /\ sessionsLog = <<>>
  /\ sessionIndex = <<>>

\* ------------------------------------------------------------------------
\* Specification of ordinary traffic: every participant route, well-formed
\* and malformed requests, and the read routes called with the key
\* ------------------------------------------------------------------------
MaxRecords == 4

\* the number of records in all the logs
TrafficRecords == Len(sessionsLog) + Len(updatesLog) + StoredEvents
Room(n) == TrafficRecords + n <= MaxRecords

\* identity fields a client adds to the body of an update request
Forged(body) ==
  Assign(body, [prolific_pid |-> "p9", study_id |-> "st9",
                condition_code |-> "average", condition_forced |-> FALSE])

TrafficProgressBody(sid) ==
  [session_id |-> sid, currentPageIndex |-> 3, currentPageId |-> "applicant_details",
   formData |-> [a |-> "x"]]

\* a batch in the tracker's form, and one whose event carries its own
\* session_id and no type
TrafficBatches(sid) ==
  EventBatches(sid) \cup
    {[session_id |-> sid, events |-> <<[session_id |-> GhostId, pageId |-> "consent"]>>]}

\* bodies without session_id, and events-batch bodies without an array
NoSessionId == [totalDurationMs |-> 9]
NoArrayBodies(sid) ==
  {[session_id |-> sid], [session_id |-> sid, eventsNotArray |-> "x"],
   [events |-> <<[type |-> "page"]>>]}

Key == [key |-> EXPORT_KEY]

TCreate == Room(1) /\ AnyCreate /\ UNCHANGED <<probe, clientVars>>
TConsent ==
  /\ Room(1)
  /\ \E sid \in KnownIds : Consent(Forged([session_id |-> sid]))
  /\ UNCHANGED <<probe, clientVars>>
TProgress ==
  /\ Room(1)
  /\ \E sid \in KnownIds : Progress(Forged(TrafficProgressBody(sid)))
  /\ UNCHANGED <<probe, clientVars>>
TSnapshot ==
  /\ Room(1)
  /\ \E sid \in KnownIds : Snapshot(Forged(SnapshotBody(sid)))
  /\ UNCHANGED <<probe, clientVars>>
TComplete ==
  /\ Room(1)
  /\ \E sid \in KnownIds : Complete(Forged(CompleteBody(sid)))
  /\ UNCHANGED <<probe, clientVars>>
TEvents ==
  /\ \E sid \in KnownIds : \E body \in TrafficBatches(sid) :
       Room(Len(body.events)) /\ EventsBatch(body)
  /\ UNCHANGED <<probe, clientVars>>
TResume ==
  /\ \E query \in {[pid |-> "p1"], [sid |-> 1]} : Resume(query)
  /\ UNCHANGED <<probe, clientVars>>
TExportSessions == ExportSessions(Key) /\ UNCHANGED <<probe, clientVars>>
TExportAllJson == ExportAllJson(Key) /\ UNCHANGED <<probe, clientVars>>
TExportCsv == ExportCsv(Key) /\ UNCHANGED <<probe, clientVars>>
TExportTable == ExportTable(Key, "page_events") /\ UNCHANGED <<probe, clientVars>>
TStats == Stats(Key) /\ UNCHANGED <<probe, clientVars>>
MalformedConsent == Room(1) /\ Consent(NoSessionId) /\ UNCHANGED <<probe, clientVars>>
MalformedProgress == Room(1) /\ Progress(NoSessionId) /\ UNCHANGED <<probe, clientVars>>
MalformedSnapshot == Room(1) /\ Snapshot(NoSessionId) /\ UNCHANGED <<probe, clientVars>>
MalformedComplete == Room(1) /\ Complete(NoSessionId) /\ UNCHANGED <<probe, clientVars>>
MalformedEvents ==
  /\ Room(1)
  /\ \E body \in NoArrayBodies(1) : EventsBatch(body)
  /\ UNCHANGED <<probe, clientVars>>

NextTraffic ==
  \/ TCreate
  \/ TConsent
  \/ TProgress
  \/ TSnapshot
  \/ TComplete
  \/ TEvents
  \/ TResume
  \/ TExportSessions
  \/ TExportAllJson
  \/ TExportCsv
  \/ TExportTable
  \/ TStats
  \/ MalformedConsent
  \/ MalformedProgress
  \/ MalformedSnapshot
  \/ MalformedComplete
  \/ MalformedEvents

SpecTraffic == Init /\ [][NextTraffic]_vars

IdentityFields ==
  {"session_id", "prolific_pid", "study_id", "condition_code", "condition_forced"}

\* C12: the identity and assignment of every created session, in the merged
\* view and in the session index, are those of its creation record.
C12_IdentityImmutable ==
  \A i \in 1..Len(sessionsLog) :
    LET created == sessionsLog[i]
        sid == created.session_id
    IN /\ FindById(getMergedSessions, sid) # <<>>
       /\ IndexHas(sessionIndex, sid)
       /\ \A f \in IdentityFields :
            /\ f \in DOMAIN created
            /\ MergedOf(sid)[f] = created[f]
            /\ IndexGet(sessionIndex, sid)[f] = created[f]

\* a session has taken a completion whose body carried other identity fields
C12_Witness ==
  /\ req.op = "complete"
  /\ Field(req.body, "prolific_pid", "") = "p9"
  /\ Cached(req.body)
  /\ IndexGet(sessionIndex, req.body.session_id).is_complete
  /\ IndexGet(sessionIndex, req.body.session_id).prolific_pid # "p9"
  /\ StoredEvents > 0

UpdateOps == {"consent", "progress", "snapshot", "complete"}

\* the request lacks its session_id, or is an events batch without an array
IsMalformed(r) ==
  \/ r.op \in UpdateOps /\ "session_id" \notin DOMAIN r.body
  \/ r.op = "events" /\ ("session_id" \notin DOMAIN r.body \/ "events" \notin DOMAIN r.body)

\* C14: a malformed request is answered with a 4xx status, and no log and no
\* entry of the session index changes.
C14_MalformedRejected ==
  [][IsMalformed(req') =>
       /\ resp'.status \in 400..499
       /\ sessionsLog' = sessionsLog
       /\ updatesLog' = updatesLog
       /\ eventLogs' = eventLogs
       /\ sessionIndex' = sessionIndex]_vars

\* the records a step has added at the end of an event log
Added(f) == SubSeq(eventLogs'[f], Len(eventLogs[f]) + 1, Len(eventLogs'[f]))

\* the events of a batch that go to file f, in batch order
RoutedTo(events, f) == SelectSeq(events, LAMBDA e : FileOf(e) = f)

\* C18: each event of an accepted batch is stored once, in batch order, in
\* the log of its type (misc for an unrecognised type), with its own fields
\* and the session_id of the batch request.
C18_EventsCarryBatchSession ==
  [][(req'.op = "events" /\ resp'.status = 200) =>
       \A f \in EventFiles :
         /\ SubSeq(eventLogs'[f], 1, Len(eventLogs[f])) = eventLogs[f]
         /\ Len(Added(f)) = Len(RoutedTo(req'.body.events, f))
         /\ \A i \in 1..Len(Added(f)) :
              /\ Added(f)[i].session_id = req'.body.session_id
              /\ \A k \in DOMAIN RoutedTo(req'.body.events, f)[i] \ {"session_id", "_written_at"} :
                   Added(f)[i][k] = RoutedTo(req'.body.events, f)[i][k]]_vars

IsPrefix(s, t) == Len(s) <= Len(t) /\ SubSeq(t, 1, Len(s)) = s

\* C19: the record sequence of every log before a request is a prefix of
\* its record sequence after the request.
C19_AppendOnly ==
  [][/\ IsPrefix(sessionsLog, sessionsLog')
     /\ IsPrefix(updatesLog, updatesLog')
     /\ \A f \in EventFiles : IsPrefix(eventLogs[f], eventLogs'[f])]_vars

\* a read route has answered from a store that holds sessions, more than one
\* update and events
C19_Witness ==
  /\ req.op \in {"stats", "export/csv", "export/all/json"}
  /\ resp.status = 200
  /\ Len(sessionsLog) > 0
  /\ Len(updatesLog) > 1
  /\ StoredEvents > 0

\* ------------------------------------------------------------------------
\* readJsonl on the text of a log file
\* ------------------------------------------------------------------------
\* A file is the sequence of its lines.  A line is the JSON text of an
\* object (kind "object", the object in rec), of a number (n), of null or of
\* false, a blank line, or text that is not JSON (kind "text").
MaxLines == 3

JsonNull == [kind |-> "null"]

ProbeLines ==
  {[kind |-> "object", rec |-> [session_id |-> 1]],
   [kind |-> "object", rec |-> [session_id |-> 2]],
   [kind |-> "text"], [kind |-> "blank"], JsonNull, [kind |-> "false"],
   [kind |-> "number", n |-> 0], [kind |-> "number", n |-> 5]}

\* JSON.parse(line) throws
ParseFails(line) == line.kind \in {"text", "blank"}

\* try { return JSON.parse(line); } catch { return null; }
ParseLine(line) == IF ParseFails(line) THEN JsonNull ELSE line

\* Boolean(value) of a parsed value
Truthy(value) ==
  CASE value.kind = "object" -> TRUE
    [] value.kind = "number" -> value.n # 0
    [] OTHER -> FALSE

RECURSIVE TrimLines(_)
\* content.trim().split('\n'): blank lines at either end are gone
TrimLines(lines) ==
  IF lines = <<>> THEN <<>>
  ELSE IF Head(lines).kind = "blank" THEN TrimLines(Tail(lines))
  ELSE IF lines[Len(lines)].kind = "blank" THEN TrimLines(SubSeq(lines, 1, Len(lines) - 1))
  ELSE lines

RECURSIVE UntilFailure(_)
UntilFailure(lines) ==
  IF lines = <<>> \/ ParseFails(Head(lines)) THEN <<>>
  ELSE <<Head(lines)>> \o UntilFailure(Tail(lines))

readJsonl_Abort(lines) == SelectSeq(UntilFailure(TrimLines(lines)), Truthy)
\* readJsonl of a file with these lines (no lines: the file is missing or empty)
readJsonl(lines) ==
  LET content == TrimLines(lines)
  IN IF content = <<>> THEN <<>>
     ELSE SelectSeq([i \in 1..Len(content) |-> ParseLine(content[i])], Truthy)

RECURSIVE SeqsUpTo(_, _)
\* the sequences over S of length at most n
SeqsUpTo(S, n) ==
  IF n = 0 THEN {<<>>}
  ELSE LET shorter == SeqsUpTo(S, n - 1)
       IN shorter \cup {Append(q, x) : q \in shorter, x \in S}

InitRead ==
  /\ InitServer
  /\ \E lines \in SeqsUpTo(ProbeLines, MaxLines) : probe = [fn |-> "file", arg |-> lines]
  /\ tabs = NoTabs /\ cookie = NoCookie /\ browser = NoBrowser

ReadFile ==
  /\ probe.fn = "file"
  /\ probe' = [fn |-> "readJsonl", arg |-> probe.arg, out |-> readJsonl(probe.arg)]
  /\ UNCHANGED <<serverVars, clientVars>>

NextRead == ReadFile

SpecRead == InitRead /\ [][NextRead]_vars

\* out is lines restricted to the positions in keep, in order
IsSubsequenceAt(out, lines, keep) ==
  /\ Len(out) = Cardinality(keep)
  /\ \E at \in [1..Len(out) -> keep] :
       /\ \A i, j \in 1..Len(out) : i < j => at[i] < at[j]
       /\ \A i \in 1..Len(out) : out[i] = lines[at[i]]

\* C20 as stated: the result of readJsonl is the subsequence of the lines
\* that parse.
C20_ReadKeepsEveryParsedLine ==
  probe.fn = "readJsonl" =>
    IsSubsequenceAt(probe.out, probe.arg,
                    {i \in 1..Len(probe.arg) : probe.arg[i].kind \notin {"text", "blank"}})

\* C20: the result of readJsonl is the subsequence of the lines that parse
\* to a truthy value (an object, a non-zero number), in file order; a line
\* that fails to parse, or parses to null, false or 0, removes only itself.
C20_ReadKeepsTruthyParsedLines ==
  probe.fn = "readJsonl" =>
    IsSubsequenceAt(probe.out, probe.arg,
                    {i \in 1..Len(probe.arg) :
                       \/ probe.arg[i].kind = "object"
                       \/ probe.arg[i].kind = "number" /\ probe.arg[i].n # 0})

\* a file with a line that is not JSON between two records has been read,
\* and both records are in the result
C20_Witness ==
  /\ probe.fn = "readJsonl"
  /\ Len(probe.arg) = 3
  /\ probe.arg[1].kind = "object"
  /\ probe.arg[2].kind = "text"
  /\ probe.arg[3].kind = "object"
  /\ probe.out = <<probe.arg[1], probe.arg[3]>>

\* ------------------------------------------------------------------------
\* Strings: trim, toLowerCase, replace(/\s/g, ''), split, parseInt, String
\* ------------------------------------------------------------------------
\* The characters of the strings whose characters the code looks at.  Any
\* other string of the model has no upper-case letter, whitespace, comma,
\* quote, slash or line break, and counts as one unit of text.
Spelling ==
  "" :> <<>>
  @@ "john" :> <<"j", "o", "h", "n">>
  @@ " John " :> <<" ", "J", "o", "h", "n", " ">>
  @@ "JOHN" :> <<"J", "O", "H", "N">>
  @@ "jo hn" :> <<"j", "o", " ", "h", "n">>
  @@ "jane" :> <<"j", "a", "n", "e">>
  @@ "doe" :> <<"d", "o", "e">>
  @@ "Doe" :> <<"D", "o", "e">>
  @@ "12/06/1990" :> <<"1", "2", "/", "0", "6", "/", "1", "9", "9", "0">>
  @@ "12/6/1990" :> <<"1", "2", "/", "6", "/", "1", "9", "9", "0">>
  @@ " 12/06/1990" :> <<" ", "1", "2", "/", "0", "6", "/", "1", "9", "9", "0">>
  @@ "12/06/1990 " :> <<"1", "2", "/", "0", "6", "/", "1", "9", "9", "0", " ">>
  @@ "12/06/1991" :> <<"1", "2", "/", "0", "6", "/", "1", "9", "9", "1">>
  @@ "12-06-1990" :> <<"1", "2", "-", "0", "6", "-", "1", "9", "9", "0">>
  @@ "id-458921" :> <<"i", "d", "-", "4", "5", "8", "9", "2", "1">>
  @@ " id-458921 " :> <<" ", "i", "d", "-", "4", "5", "8", "9", "2", "1", " ">>
  @@ "ID-458921" :> <<"I", "D", "-", "4", "5", "8", "9", "2", "1">>
  @@ "id-45 8921" :> <<"i", "d", "-", "4", "5", " ", "8", "9", "2", "1">>
  @@ "id-458922" :> <<"i", "d", "-", "4", "5", "8", "9", "2", "2">>
  @@ "gx-417-zr" :> <<"g", "x", "-", "4", "1", "7", "-", "z", "r">>
  @@ "GX 417 ZR" :> <<"G", "X", " ", "4", "1", "7", " ", "Z", "R">>
  @@ "M1" :> <<"M", "1">>
  @@ "m1" :> <<"m", "1">>
  @@ " M1" :> <<" ", "M", "1">>
  @@ "N1" :> <<"N", "1">>
  @@ "yes" :> <<"y", "e", "s">>
  @@ "Yes" :> <<"Y", "e", "s">>
  @@ "no" :> <<"n", "o">>
  @@ "a,\"b\nc" :> <<"a", ",", "\"", "b", "\n", "c">>
  @@ "3" :> <<"3">>
  @@ "07" :> <<"0", "7">>
  @@ "x" :> <<"x">>

LowerOf ==
  "A" :> "a" @@ "B" :> "b" @@ "C" :> "c" @@ "D" :> "d" @@ "E" :> "e" @@ "F" :> "f"
  @@ "G" :> "g" @@ "H" :> "h" @@ "I" :> "i" @@ "J" :> "j" @@ "K" :> "k" @@ "L" :> "l"
  @@ "M" :> "m" @@ "N" :> "n" @@ "O" :> "o" @@ "P" :> "p" @@ "Q" :> "q" @@ "R" :> "r"
  @@ "S" :> "s" @@ "T" :> "t" @@ "U" :> "u" @@ "V" :> "v" @@ "W" :> "w" @@ "X" :> "x"
  @@ "Y" :> "y" @@ "Z" :> "z"

DigitValue ==
  "0" :> 0 @@ "1" :> 1 @@ "2" :> 2 @@ "3" :> 3 @@ "4" :> 4 @@ "5" :> 5 @@ "6" :> 6 @@ "7" :> 7 @@ "8" :> 8 @@ "9" :> 9

\* a text is the sequence of the characters (or units) of a string
Chars(s) == IF s \in DOMAIN Spelling THEN Spelling[s] ELSE <<s>>

\* NaN; no number the model computes with reaches it
NaN == -999999999

IsSpace(c) == c \in {" ", "\t", "\n", "\r"}
IsDigit(c) == c \in DOMAIN DigitValue
Lower(c) == IF c \in DOMAIN LowerOf THEN LowerOf[c] ELSE c

toLowerCase(text) == [i \in 1..Len(text) |-> Lower(text[i])]

trimStart(text) ==
  LET kept == {i \in 1..Len(text) : ~IsSpace(text[i])}
  IN IF kept = {} THEN <<>>
     ELSE SubSeq(text, CHOOSE i \in kept : \A j \in kept : i <= j, Len(text))

trim(text) ==
  LET kept == {i \in 1..Len(text) : ~IsSpace(text[i])}
  IN IF kept = {} THEN <<>>
     ELSE SubSeq(text, CHOOSE i \in kept : \A j \in kept : i <= j,
                       CHOOSE i \in kept : \A j \in kept : i >= j)

\* v.replace(/\s/g, '')
stripWhitespace(text) == SelectSeq(text, LAMBDA c : ~IsSpace(c))

RECURSIVE SplitFrom(_, _, _, _)
\* the parts of text from position i on, cur being the part under way
SplitFrom(text, sep, i, cur) ==
  IF i > Len(text) THEN <<cur>>
  ELSE IF text[i] = sep THEN <<cur>> \o SplitFrom(text, sep, i + 1, <<>>)
  ELSE SplitFrom(text, sep, i + 1, Append(cur, text[i]))

\* v.split(sep)
split(text, sep) == SplitFrom(text, sep, 1, <<>>)

RECURSIVE DigitsValue(_, _, _)
\* the value of the digits of text from position i on, up to the first
\* character that is not a digit
DigitsValue(text, i, acc) ==
  IF i > Len(text) \/ ~IsDigit(text[i]) THEN acc
  ELSE DigitsValue(text, i + 1, 10 * acc + DigitValue[text[i]])

\* parseInt(v) of a string: leading whitespace skipped, an optional sign,
\* then the leading digits; NaN without a leading digit
parseInt(text) ==
  LET t == trimStart(text)
      signed == Len(t) > 0 /\ t[1] \in {"-", "+"}
      digits == IF signed THEN Tail(t) ELSE t
  IN IF Len(digits) = 0 \/ ~IsDigit(digits[1]) THEN NaN
     ELSE IF signed /\ t[1] = "-" THEN 0 - DigitsValue(digits, 1, 0)
     ELSE DigitsValue(digits, 1, 0)

RECURSIVE Decimal(_)
\* the decimal digits of a natural number
Decimal(n) ==
  LET last == CHOOSE c \in DOMAIN DigitValue : DigitValue[c] = n % 10
  IN IF n < 10 THEN <<last>> ELSE Append(Decimal(n \div 10), last)

\* String(n) of a number
NumberText(n) ==
  IF n = NaN THEN <<"N", "a", "N">>
  ELSE IF n < 0 THEN <<"-">> \o Decimal(0 - n)
  ELSE Decimal(n)

RECURSIVE Join(_, _)
\* parts.join(sep) for parts that are texts
Join(parts, sep) ==
  IF Len(parts) = 0 THEN <<>>
  ELSE IF Len(parts) = 1 THEN parts[1]
  ELSE parts[1] \o sep \o Join(Tail(parts), sep)

\* the texts of an array of strings
Texts(items) == [i \in 1..Len(items) |-> Chars(items[i])]

IsArray(v) == "arr" \in DOMAIN v
IsString(v) == "str" \in DOMAIN v

\* String(v) of a form value
StringOf(v) ==
  IF IsArray(v) THEN Join(Texts(v.arr), <<",">>)
  ELSE IF IsString(v) THEN Chars(v.str)
  ELSE <<"null">>

\* ------------------------------------------------------------------------
\* Answer key and application quality scoring (server.js:1063-1184)
\* ------------------------------------------------------------------------
\* v => v.trim().toLowerCase()
normalizeName(text) == toLowerCase(trim(text))

\* v => v.trim().toLowerCase().replace(/\s/g, '')
normalizeId(text) == stripWhitespace(toLowerCase(trim(text)))

\* p[k] of the parts of a split, 'undefined' in a template string when absent
PartText(p, k) == IF k <= Len(p) THEN p[k] ELSE <<"undefined">>

\* norm of date_of_birth.compare:
\* `${parseInt(p[0])}/${parseInt(p[1])}/${p[2]}` for p = v.split('/')
normDate(text) ==
  LET p == split(text, "/")
      num(k) == NumberText(IF k <= Len(p) THEN parseInt(p[k]) ELSE NaN)
  IN num(1) \o <<"/">> \o num(2) \o <<"/">> \o PartText(p, 3)

\* the answer key, in property order; normalize and compare name the
\* function of the rule
ANSWER_KEY ==
  <<[field |-> "first_name", correct |-> "john", normalize |-> "name"],
    [field |-> "last_name", correct |-> "doe", normalize |-> "name"],
    [field |-> "date_of_birth", correct |-> "12/06/1990", compare |-> "date"],
    [field |-> "national_id", correct |-> "id-458921", normalize |-> "id"],
    [field |-> "is_eligible", correct |-> "yes"],
    [field |-> "eligibility_documents",
     correct |-> <<"vehicle_registration", "insurance_certificate", "technical_inspection">>,
     type |-> "checkbox_must_include"],
    [field |-> "residence_document", correct |-> <<"electricity_bill">>, type |-> "one_of"],
    [field |-> "vehicle_registration_number", correct |-> "gx-417-zr", normalize |-> "id"],
    [field |-> "vehicle_owner_type", correct |-> "private"],
    [field |-> "vehicle_category", correct |-> "M1"],
    [field |-> "vehicle_fuel_type", correct |-> "hybrid_synth"],
    [field |-> "vehicle_env_classification", correct |-> "z3"]>>

\* rule.normalize || (v => v)
normalize(rule, text) ==
  IF "normalize" \notin DOMAIN rule THEN text
  ELSE IF rule.normalize = "name" THEN normalizeName(text)
  ELSE normalizeId(text)

Range(seq) == {seq[i] : i \in 1..Len(seq)}

Skipped_Never(responses, field) == field \notin DOMAIN responses
\* submitted === undefined || submitted === null || submitted === ''
Skipped(responses, field) ==
  \/ field \notin DOMAIN responses
  \/ responses[field] = JsNull
  \/ responses[field] = Str("")

\* Array.isArray(submitted) ? submitted : [submitted]
AsArray(submitted) == IF IsArray(submitted) THEN submitted.arr ELSE <<submitted.str>>

Missing_All(rule, arr) == rule.correct
\* rule.correct.filter(req => !arr.includes(req))
Missing(rule, arr) == SelectSeq(rule.correct, LAMBDA r : r \notin Range(arr))

Extras_Selected(rule, arr) == arr
\* arr.filter(v => !rule.correct.includes(v))
Extras(rule, arr) == SelectSeq(arr, LAMBDA v : v \notin Range(rule.correct))

\* isCorrect of one answer-key rule on a submitted value
isCorrect(rule, submitted) ==
  IF Field(rule, "type", "") = "checkbox_must_include"
  THEN Range(rule.correct) \subseteq Range(AsArray(submitted))
  ELSE IF Field(rule, "type", "") = "one_of"
  THEN IsString(submitted) /\ submitted.str \in Range(rule.correct)
  ELSE IF "compare" \in DOMAIN rule
  THEN normDate(StringOf(submitted)) = normDate(Chars(rule.correct))
  ELSE normalize(rule, StringOf(submitted)) = normalize(rule, Chars(rule.correct))

\* the entry pushed to result.errors for a rule that is not met
ErrorEntry(rule, submitted) ==
  IF Field(rule, "type", "") = "checkbox_must_include"
  THEN [field |-> rule.field,
        submitted |-> Join(Texts(AsArray(submitted)), <<", ">>),
        expected |-> Join(Texts(rule.correct), <<", ">>),
        description |-> <<"Missing required document(s): ">>
                          \o Join(Texts(Missing(rule, AsArray(submitted))), <<", ">>)]
  ELSE IF Field(rule, "type", "") = "one_of"
  THEN [field |-> rule.field,
        submitted |-> StringOf(submitted),
        expected |-> <<"one of: ">> \o Join(Texts(rule.correct), <<", ">>),
        description |-> <<"Invalid choice for ", rule.field>>]
  ELSE [field |-> rule.field,
        submitted |-> StringOf(submitted),
        expected |-> Chars(rule.correct),
        description |-> <<"Incorrect ", rule.field>>]

\* the entry pushed to result.overDocumentation
OverDocEntry(rule, arr) ==
  [field |-> rule.field,
   extraDocs |-> Extras(rule, arr),
   totalSelected |-> Len(arr),
   requiredCount |-> Len(rule.correct)]

\* one turn of the loop over the answer key
ScoreRule(result, rule, responses) ==
  IF Skipped(responses, rule.field) THEN result
  ELSE LET submitted == responses[rule.field]
           wrong == ~isCorrect(rule, submitted)
           over == /\ Field(rule, "type", "") = "checkbox_must_include"
                   /\ Len(Extras(rule, AsArray(submitted))) > 0
       IN [result EXCEPT
             !.errors = IF wrong THEN Append(@, ErrorEntry(rule, submitted)) ELSE @,
             !.totalErrors = IF wrong THEN @ + 1 ELSE @,
             !.overDocumentation =
                IF over THEN Append(@, OverDocEntry(rule, AsArray(submitted))) ELSE @]

RECURSIVE ScoreFrom(_, _, _)
ScoreFrom(result, responses, i) ==
  IF i > Len(ANSWER_KEY) THEN result
  ELSE ScoreFrom(ScoreRule(result, ANSWER_KEY[i], responses), responses, i + 1)

\* result.wouldReject = result.totalErrors > 0
WouldReject(totalErrors) == totalErrors > 0

scoreApplication(session) ==
  LET result == [totalErrors |-> 0, errors |-> <<>>, wouldReject |-> FALSE,
                 overDocumentation |-> <<>>]
  IN IF "formResponses" \notin DOMAIN session THEN result
     ELSE LET responses == AssignAll(EmptyObj, ObjValues(session.formResponses), 1)
              scored == ScoreFrom(result, responses, 1)
          IN [scored EXCEPT !.wouldReject = WouldReject(scored.totalErrors)]

\* ------------------------------------------------------------------------
\* scoreApplication on submitted applications
\* ------------------------------------------------------------------------
MaxChanges == 2

REQUIRED_DOCS == <<"vehicle_registration", "insurance_certificate", "technical_inspection">>

\* an application that meets every rule of the answer key
CorrectResponses ==
  [first_name |-> Str("john"), last_name |-> Str("doe"),
   date_of_birth |-> Str("12/06/1990"), national_id |-> Str("id-458921"),
   is_eligible |-> Str("yes"),
   eligibility_documents |-> Arr(REQUIRED_DOCS),
   residence_document |-> Str("electricity_bill"),
   vehicle_registration_number |-> Str("gx-417-zr"),
   vehicle_owner_type |-> Str("private"), vehicle_category |-> Str("M1"),
   vehicle_fuel_type |-> Str("hybrid_synth"), vehicle_env_classification |-> Str("z3")]

Strs(S) == {Str(x) : x \in S}

\* other submitted values of each field
FieldProbes ==
  [first_name |-> Strs({" John ", "JOHN", "jo hn", "jane", ""}) \cup {JsNull},
   last_name |-> Strs({"Doe", ""}),
   date_of_birth |->
     Strs({"12/6/1990", " 12/06/1990", "12/06/1990 ", "12/06/1991", "12-06-1990", ""})
       \cup {JsNull},
   national_id |->
     Strs({" id-458921 ", "ID-458921", "id-45 8921", "id-458922", ""}) \cup {JsNull},
   is_eligible |-> Strs({"Yes", "no", ""}) \cup {JsNull},
   eligibility_documents |->
     {Arr(REQUIRED_DOCS \o <<"water_bill">>),
      Arr(<<"insurance_certificate", "vehicle_registration">>),
      Arr(<<"water_bill", "insurance_certificate">>),
      Arr(<<>>), Str("vehicle_registration"), Str("water_bill"), Str(""), JsNull},
   residence_document |-> Strs({"water_bill", ""}) \cup {JsNull},
   vehicle_registration_number |-> Strs({"GX 417 ZR", ""}),
   vehicle_owner_type |-> Strs({"company"}),
   vehicle_category |-> Strs({"m1", " M1", "N1", ""}) \cup {JsNull},
   vehicle_fuel_type |-> Strs({"diesel"}),
   vehicle_env_classification |-> Strs({"z1"})]

\* responses with the value of field f replaced or, for change "undefined",
\* with no field f
Changed(responses, f, change) ==
  IF "undefined" \in DOMAIN change
  THEN [k \in DOMAIN responses \ {f} |-> responses[k]]
  ELSE [responses EXCEPT ![f] = change]

FieldChanges(f) == FieldProbes[f] \cup {[undefined |-> TRUE]}

RECURSIVE ChangedUpTo(_)
\* the responses that differ from the correct ones in at most n fields
ChangedUpTo(n) ==
  IF n = 0 THEN {CorrectResponses}
  ELSE LET less == ChangedUpTo(n - 1)
       IN less \cup UNION {{Changed(r, f, c) : r \in less, c \in FieldChanges(f)} :
                              f \in DOMAIN FieldProbes}

ScoreSessions ==
  {[session_id |-> 1]}
    \cup {[session_id |-> 1, formResponses |-> <<[key |-> "application", val |-> r]>>] :
            r \in ChangedUpTo(MaxChanges)}

InitScore ==
  /\ InitServer
  /\ \E session \in ScoreSessions : probe = [fn |-> "session", arg |-> session]
  /\ tabs = NoTabs /\ cookie = NoCookie /\ browser = NoBrowser

Score ==
  /\ probe.fn = "session"
  /\ probe' = [fn |-> "scoreApplication", arg |-> probe.arg,
               out |-> scoreApplication(probe.arg)]
  /\ UNCHANGED <<serverVars, clientVars>>

NextScore == Score

SpecScore == InitScore /\ [][NextScore]_vars

\* the flattened responses of the scored session
Submitted ==
  IF "formResponses" \in DOMAIN probe.arg
  THEN AssignAll(EmptyObj, ObjValues(probe.arg.formResponses), 1)
  ELSE EmptyObj

\* the field was not reached: its value is undefined, null or ''
NotReached(f) == f \notin DOMAIN Submitted \/ Submitted[f] \in {JsNull, Str("")}

ErrorsOf(f) == SelectSeq(probe.out.errors, LAMBDA e : e.field = f)
OverDocOf(f) == SelectSeq(probe.out.overDocumentation, LAMBDA o : o.field = f)

AnswerKeyFields == {ANSWER_KEY[i].field : i \in 1..Len(ANSWER_KEY)}
RuleOf(f) == ANSWER_KEY[CHOOSE i \in 1..Len(ANSWER_KEY) : ANSWER_KEY[i].field = f]

\* C23: a field of the answer key whose submitted value is '', null or
\* undefined has no entry in errors, whatever the type of its rule;
\* totalErrors is the number of entries of errors and wouldReject is true
\* exactly when totalErrors > 0.
C23_ScoringSkipRule ==
  probe.fn = "scoreApplication" =>
    /\ \A f \in AnswerKeyFields : NotReached(f) => ErrorsOf(f) = <<>>
    /\ probe.out.totalErrors = Len(probe.out.errors)
    /\ probe.out.wouldReject = (probe.out.totalErrors > 0)

\* a must-include field submitted as '' next to a wrong field: one error
C23_Witness ==
  /\ probe.fn = "scoreApplication"
  /\ "eligibility_documents" \in DOMAIN Submitted
  /\ Submitted["eligibility_documents"] = Str("")
  /\ probe.out.totalErrors = 1
  /\ probe.out.wouldReject

MustIncludeFields ==
  {f \in AnswerKeyFields : Field(RuleOf(f), "type", "") = "checkbox_must_include"}

\* the values a reached must-include field selects
Selected(f) ==
  IF "arr" \in DOMAIN Submitted[f] THEN Range(Submitted[f].arr) ELSE {Submitted[f].str}

\* C24: for a must-include field that was reached, a submission missing one
\* or more required values has exactly one error entry for the field, whose
\* description names exactly the missing required values; a submission
\* with every required value has no error entry for the field.
C24_MustIncludeOneError ==
  probe.fn = "scoreApplication" =>
    \A f \in MustIncludeFields :
      ~NotReached(f) =>
        LET missing == Range(RuleOf(f).correct) \ Selected(f)
        IN IF missing = {} THEN ErrorsOf(f) = <<>>
           ELSE /\ Len(ErrorsOf(f)) = 1
                /\ ErrorsOf(f)[1].description[1] = "Missing required document(s): "
                /\ Range(Tail(ErrorsOf(f)[1].description)) \ {", "} = missing

\* two of the three required documents and an extra one were selected
C24_Witness ==
  /\ probe.fn = "scoreApplication"
  /\ ~NotReached("eligibility_documents")
  /\ Selected("eligibility_documents") = {"water_bill", "insurance_certificate"}
  /\ Len(ErrorsOf("eligibility_documents")) = 1
  /\ Range(Tail(ErrorsOf("eligibility_documents")[1].description)) \ {", "}
       = {"vehicle_registration", "technical_inspection"}

\* C25: for a must-include field that was reached, overDocumentation has an
\* entry for the field exactly when a selected value is outside the required
\* set; its extraDocs is the selected values that are not required, in the
\* order selected; and a submission with every required value has no error
\* for the field, extras or not.
C25_OverDocumentation ==
  probe.fn = "scoreApplication" =>
    \A f \in MustIncludeFields :
      ~NotReached(f) =>
        LET required == Range(RuleOf(f).correct)
            arr == IF "arr" \in DOMAIN Submitted[f] THEN Submitted[f].arr
                   ELSE <<Submitted[f].str>>
        IN /\ (OverDocOf(f) # <<>>) = (Selected(f) \ required # {})
           /\ Len(OverDocOf(f)) <= 1
           /\ OverDocOf(f) # <<>> =>
                OverDocOf(f)[1].extraDocs = SelectSeq(arr, LAMBDA v : v \notin required)
           /\ required \subseteq Selected(f) => ErrorsOf(f) = <<>>

\* the three required documents and water_bill: extraDocs is ['water_bill']
\* and the field has no error
C25_Witness ==
  /\ probe.fn = "scoreApplication"
  /\ ~NotReached("eligibility_documents")
  /\ Selected("eligibility_documents") = Range(REQUIRED_DOCS) \cup {"water_bill"}
  /\ Len(OverDocOf("eligibility_documents")) = 1
  /\ OverDocOf("eligibility_documents")[1].extraDocs = <<"water_bill">>
  /\ ErrorsOf("eligibility_documents") = <<>>

LiteralFields == {f \in AnswerKeyFields : "type" \notin DOMAIN RuleOf(f)}
IdLikeFields == {"national_id", "vehicle_registration_number"}

\* the two texts differ at most in letter case and surrounding whitespace
SameButCaseAndPadding(a, b) == toLowerCase(trim(a)) = toLowerCase(trim(b))

\* the two texts differ at most in letter case and whitespace anywhere
SameButCaseAndSpaces(a, b) ==
  stripWhitespace(toLowerCase(a)) = stripWhitespace(toLowerCase(b))

RECURSIVE DropZeros(_)
DropZeros(text) ==
  IF Len(text) > 1 /\ text[1] = "0" THEN DropZeros(Tail(text)) ELSE text

\* the two dates have the same year and, leading zeros aside, the same day
\* and month
SameButLeadingZeros(a, b) ==
  LET p == split(a, "/")
      q == split(b, "/")
  IN /\ Len(p) = 3 /\ Len(q) = 3
     /\ DropZeros(p[1]) = DropZeros(q[1])
     /\ DropZeros(p[2]) = DropZeros(q[2])
     /\ p[3] = q[3]

\* C26: a literal-valued field whose submitted string differs from the
\* expected value only in letter case or surrounding whitespace has no error;
\* an ID-like field may also differ in internal whitespace; a date_of_birth
\* may differ by leading zeros of day or month.
C26_NormalisedComparison ==
  probe.fn = "scoreApplication" =>
    \A f \in LiteralFields :
      (~NotReached(f) /\ "str" \in DOMAIN Submitted[f]) =>
        LET submitted == Chars(Submitted[f].str)
            expected == Chars(RuleOf(f).correct)
        IN /\ SameButCaseAndPadding(submitted, expected) => ErrorsOf(f) = <<>>
           /\ (f \in IdLikeFields /\ SameButCaseAndSpaces(submitted, expected))
                => ErrorsOf(f) = <<>>
           /\ (f = "date_of_birth" /\ SameButLeadingZeros(submitted, expected))
                => ErrorsOf(f) = <<>>

\* ------------------------------------------------------------------------
\* Numbers of the statistics: sums with NaN, averages as fractions, rounding
\* ------------------------------------------------------------------------
\* a + b
Plus(a, b) == IF a = NaN \/ b = NaN THEN NaN ELSE a + b

\* the number obj.k is in arithmetic: undefined counts as NaN
Num(obj, k) == IF k \in DOMAIN obj THEN obj[k] ELSE NaN

RECURSIVE Sum(_)
\* values.reduce((a, b) => a + b, 0)
Sum(values) == IF Len(values) = 0 THEN 0 ELSE Plus(values[1], Sum(Tail(values)))

\* an average is kept as the fraction n / d
Fraction(n, d) == [n |-> n, d |-> d]

\* Math.round(n / d) for n >= 0: halves go up; NaN stays NaN
Round(n, d) == IF n = NaN THEN NaN ELSE (2 * n + d) \div (2 * d)

\* values.length ? sum / values.length : 0
Mean(values) ==
  IF Len(values) = 0 THEN Fraction(0, 1) ELSE Fraction(Sum(values), Len(values))

RECURSIVE SortNumbers(_)
\* [...arr].sort((a, b) => a - b)
SortNumbers(arr) ==
  IF Len(arr) = 0 THEN <<>>
  ELSE LET k == CHOOSE i \in 1..Len(arr) :
                  /\ \A j \in 1..Len(arr) : arr[i] <= arr[j]
                  /\ \A j \in 1..(i - 1) : arr[j] # arr[i]
       IN <<arr[k]>> \o SortNumbers(SubSeq(arr, 1, k - 1) \o SubSeq(arr, k + 1, Len(arr)))

medianOf(arr) ==
  IF Len(arr) = 0 THEN Fraction(0, 1)
  ELSE LET sorted == SortNumbers(arr)
           mid == Len(sorted) \div 2
       IN IF Len(sorted) % 2 = 1 THEN Fraction(sorted[mid + 1], 1)
          ELSE Fraction(sorted[mid] + sorted[mid + 1], 2)

\* fmt of the stats handler: '0s' for 0 and NaN, else 'Xm Ys' or 'Ys'
fmt(ms) ==
  IF ms.n = 0 \/ ms.n = NaN THEN <<"0s">>
  ELSE LET s == Round(ms.n, ms.d * 1000)
           m == s \div 60
       IN IF m > 0 THEN NumberText(m) \o <<"m ">> \o NumberText(s % 60) \o <<"s">>
          ELSE NumberText(s) \o <<"s">>

\* x.toFixed(1) of a fraction that is not negative
toFixed1(x) ==
  LET tenths == Round(10 * x.n, x.d)
  IN NumberText(tenths \div 10) \o <<".">> \o NumberText(tenths % 10)

\* Math.round(count / total * 100), 0 for an empty total
Percent(count, total) == IF total > 0 THEN Round(count * 100, total) ELSE 0

Map(seq, Op(_)) == [i \in 1..Len(seq) |-> Op(seq[i])]

RECURSIVE Distinct(_)
\* the values of seq in the order of their first appearance
Distinct(seq) ==
  IF Len(seq) = 0 THEN <<>>
  ELSE LET rest == Distinct(SubSeq(seq, 1, Len(seq) - 1))
           last == seq[Len(seq)]
       IN IF last \in Range(rest) THEN rest ELSE Append(rest, last)

Count(seq, x) == Cardinality({i \in 1..Len(seq) : seq[i] = x})

RECURSIVE SortByCount(_)
\* entries.sort((a, b) => b.count - a.count): largest count first, entries
\* of equal count in their order
SortByCount(entries) ==
  IF Len(entries) = 0 THEN <<>>
  ELSE LET k == CHOOSE i \in 1..Len(entries) :
                  /\ \A j \in 1..Len(entries) : entries[i].count >= entries[j].count
                  /\ \A j \in 1..(i - 1) : entries[j].count # entries[i].count
       IN <<entries[k]>>
            \o SortByCount(SubSeq(entries, 1, k - 1) \o SubSeq(entries, k + 1, Len(entries)))

RECURSIVE Flatten(_)
Flatten(seqs) == IF Len(seqs) = 0 THEN <<>> ELSE seqs[1] \o Flatten(Tail(seqs))

\* ------------------------------------------------------------------------
\* GET /api/stats: the statistics of the response (server.js:1392-1899)
\* ------------------------------------------------------------------------
PAGE_ORDER ==
  <<"consent", "instructions", "confirm_instructions", "applicant_details",
    "eligibility_rules", "doc_upload_eligibility", "doc_upload_residence",
    "vehicle_info", "vehicle_category", "vehicle_fuel", "vehicle_env_class",
    "application_review", "application_submitted", "ineligible_end",
    "demographics", "attention_check", "feedback", "debrief", "completion">>

PHASE_MAP ==
  [applicant_details |-> "Applicant Details", eligibility_rules |-> "Eligibility",
   doc_upload_eligibility |-> "Eligibility", doc_upload_residence |-> "Eligibility",
   vehicle_info |-> "Vehicle Details", vehicle_category |-> "Vehicle Details",
   vehicle_fuel |-> "Vehicle Details", vehicle_env_class |-> "Vehicle Details",
   application_review |-> "Review & Submit"]

phaseOrder == <<"Applicant Details", "Eligibility", "Vehicle Details", "Review & Submit">>

\* getLastPage; every currentPageIndex of the model is an index of PAGE_ORDER
getLastPage(session) ==
  IF Field(session, "is_complete", FALSE) THEN "completion"
  ELSE IF Len(Field(session, "pageTimings", <<>>)) > 0
  THEN session.pageTimings[Len(session.pageTimings)].pageId
  ELSE PAGE_ORDER[Field(session, "currentPageIndex", 0) + 1]

\* classified.filter(s => s.completion_status === status)
WithStatus(all, status) == SelectSeq(all, LAMBDA s : getCompletionStatus(s) = status)

exploitable_All(all) == all
\* exploitable = [...complete, ...submitted]
exploitable(all) == WithStatus(all, "complete") \o WithStatus(all, "submitted")

\* the flattened form responses of a session
Responses(s) ==
  IF "formResponses" \in DOMAIN s THEN AssignAll(EmptyObj, ObjValues(s.formResponses), 1)
  ELSE EmptyObj

\* parseInt(responses.f) || 0
ParseIntOrZero(responses, f) ==
  IF f \in DOMAIN responses /\ IsString(responses[f])
  THEN LET n == parseInt(Chars(responses[f].str)) IN IF n = NaN THEN 0 ELSE n
  ELSE 0

Timings(s) == Field(s, "pageTimings", <<>>)

RECURSIVE VisitTotal(_, _, _, _)
\* sessionPageTotals[key] after the visits from i on, where KeyOf gives the
\* key a visit adds to; a total that is 0 or NaN is set to 0 before the sum
VisitTotal(timings, keep, i, total) ==
  IF i > Len(timings) THEN total
  ELSE IF ~keep[i] THEN VisitTotal(timings, keep, i + 1, total)
  ELSE VisitTotal(timings, keep, i + 1,
                  Plus(IF total = NaN THEN 0 ELSE total, Num(timings[i], "durationMs")))

\* sessionPageTotals[pid] of a session that visited pid
sessionPageTotal(s, pid) ==
  VisitTotal(Timings(s), [i \in 1..Len(Timings(s)) |-> Timings(s)[i].pageId = pid], 1, 0)

Visitors(sessions, pid) == SelectSeq(sessions, LAMBDA s : pid \in VisitedPages(s))

nTime_PerVisit(sessions, pid) ==
  Sum(Map(sessions, LAMBDA s : Count(Map(Timings(s), LAMBDA pt : pt.pageId), pid)))
\* pageStats[pid].nTime: one for each session that visited pid
nTime(sessions, pid) == Len(Visitors(sessions, pid))

ErrorCountsOf(sessions, pid) ==
  Map(SelectSeq(sessions, LAMBDA s : pid \in DOMAIN Field(s, "errorCountsByPage", EmptyObj)),
      LAMBDA s : s.errorCountsByPage[pid])

\* one entry of pageStatsArr
PageStat(sessions, pid) ==
  LET totalTime == Sum(Map(Visitors(sessions, pid), LAMBDA s : sessionPageTotal(s, pid)))
      n == nTime(sessions, pid)
      counts == ErrorCountsOf(sessions, pid)
  IN [pageId |-> pid,
      avgTimeMs |-> Round(totalTime, n),
      avgTimeFormatted |-> fmt(Fraction(totalTime, n)),
      n |-> n,
      totalErrors |-> Sum(counts),
      avgErrors |-> toFixed1(Fraction(Sum(counts), n)),
      errorRate |-> Round(Len(SelectSeq(counts, LAMBDA c : c > 0)) * 100, n)]

pageStatsArr(sessions) ==
  Map(SelectSeq(PAGE_ORDER, LAMBDA pid : nTime(sessions, pid) > 0),
      LAMBDA pid : PageStat(sessions, pid))

\* the document interactions of the sessions, each with its session
Interactions(sessions) ==
  Flatten(Map(sessions, LAMBDA s :
            Map(Field(s, "docInteractions", <<>>),
                LAMBDA di : [docId |-> di.docId, durationMs |-> Field(di, "durationMs", 0),
                             session_id |-> s.session_id])))

docStats(sessions) ==
  LET all == Interactions(sessions)
  IN Map(Distinct(Map(all, LAMBDA di : di.docId)),
         LAMBDA docId :
           LET opens == SelectSeq(all, LAMBDA di : di.docId = docId)
               totalMs == Sum(Map(opens, LAMBDA di : di.durationMs))
               viewers == Cardinality({opens[i].session_id : i \in 1..Len(opens)})
           IN [docId |-> docId,
               totalOpens |-> Len(opens),
               avgTimeMs |-> Round(totalMs, Len(opens)),
               avgTimeFormatted |-> fmt(Fraction(totalMs, Len(opens))),
               viewedByPct |-> Percent(viewers, Len(sessions)),
               uniqueViewers |-> viewers])

dropOffArr_All(all) ==
  LET pages == Map(all, getLastPage)
      entry(pid) == [pageId |-> pid, count |-> Count(pages, pid)]
  IN Map(SelectSeq(PAGE_ORDER, LAMBDA pid : Count(pages, pid) > 0), entry)
       \o Map(SelectSeq(Distinct(pages), LAMBDA pid : pid \notin Range(PAGE_ORDER)), entry)
\* the drop-off table over [...dropped, ...incomplete]
dropOffArr(all) ==
  LET pages == Map(WithStatus(all, "dropped") \o WithStatus(all, "incomplete"), getLastPage)
      entry(pid) == [pageId |-> pid, count |-> Count(pages, pid)]
  IN Map(SelectSeq(PAGE_ORDER, LAMBDA pid : Count(pages, pid) > 0), entry)
       \o Map(SelectSeq(Distinct(pages), LAMBDA pid : pid \notin Range(PAGE_ORDER)), entry)

\* entries {key, count, rate} of the keys counted, largest count first
Breakdown(keys, total) ==
  SortByCount(Map(Distinct(keys),
                  LAMBDA k : [key |-> k, count |-> Count(keys, k),
                              rate |-> Percent(Count(keys, k), total)]))

EligibilityOverDoc(q) ==
  SelectSeq(q.overDocumentation, LAMBDA o : o.field = "eligibility_documents")

\* responses.residence_document of the sessions that chose one
ResidenceChoices(sessions) ==
  Map(SelectSeq(sessions, LAMBDA s :
        /\ "residence_document" \in DOMAIN Responses(s)
        /\ IsString(Responses(s).residence_document)
        /\ Responses(s).residence_document # Str("")),
      LAMBDA s : Responses(s).residence_document.str)

\* the application quality and over-documentation fields of the response
QualityStats(sessions) ==
  LET qualityScores == Map(sessions, scoreApplication)
      rejectedCount == Len(SelectSeq(qualityScores, LAMBDA q : q.wouldReject))
      fields == Flatten(Map(qualityScores, LAMBDA q : Map(q.errors, LAMBDA e : e.field)))
      overdoc == SelectSeq(qualityScores, LAMBDA q : Len(EligibilityOverDoc(q)) > 0)
      extras == Flatten(Map(qualityScores, LAMBDA q :
                  Flatten(Map(EligibilityOverDoc(q), LAMBDA o : o.extraDocs))))
  IN [quality_submitted |-> Len(sessions),
      quality_rejected |-> rejectedCount,
      quality_rejection_rate |-> Percent(rejectedCount, Len(sessions)),
      quality_by_field |-> Breakdown(fields, Len(sessions)),
      overdoc_eligibility_count |-> Len(overdoc),
      overdoc_eligibility_rate |-> Percent(Len(overdoc), Len(sessions)),
      overdoc_eligibility_extras |-> Breakdown(extras, Len(sessions)),
      residence_breakdown |->
        Map(Breakdown(ResidenceChoices(sessions), Len(sessions)),
            LAMBDA e : Assign(e, [isCorrect |-> e.key = "electricity_bill"]))]

RECURSIVE PhaseSum(_, _, _, _)
\* total of the durations of the visits of a phase from i on, without the
\* reset of VisitTotal
PhaseSum(timings, phase, i, total) ==
  IF i > Len(timings) THEN total
  ELSE IF Field(PHASE_MAP, timings[i].pageId, "") # phase
  THEN PhaseSum(timings, phase, i + 1, total)
  ELSE PhaseSum(timings, phase, i + 1, Plus(total, Num(timings[i], "durationMs")))

InPhase(s, phase) ==
  \E i \in 1..Len(Timings(s)) : Field(PHASE_MAP, Timings(s)[i].pageId, "") = phase

\* sessionPhaseTotals[phase] of a session with a visit in the phase
sessionPhaseTotal(s, phase) ==
  VisitTotal(Timings(s),
             [i \in 1..Len(Timings(s)) |-> Field(PHASE_MAP, Timings(s)[i].pageId, "") = phase],
             1, 0)

phaseStats(sessions) ==
  Map(SelectSeq(phaseOrder, LAMBDA p : \E i \in 1..Len(sessions) : InPhase(sessions[i], p)),
      LAMBDA p :
        LET in == SelectSeq(sessions, LAMBDA s : InPhase(s, p))
            totalMs == Sum(Map(in, LAMBDA s : sessionPhaseTotal(s, p)))
            vals == SelectSeq(Map(in, LAMBDA s : PhaseSum(Timings(s), p, 1, 0)),
                              LAMBDA v : v > 0)
        IN [phase |-> p,
            avgMs |-> Round(totalMs, Len(in)),
            avgFormatted |-> fmt(Fraction(totalMs, Len(in))),
            medianMs |-> medianOf(vals),
            medianFormatted |-> fmt(medianOf(vals)),
            n |-> Len(in)])

\* estimateSec of the sessions that gave a time estimate
Estimates(sessions) ==
  Map(SelectSeq(sessions, LAMBDA s :
        \/ ParseIntOrZero(Responses(s), "time_estimate_minutes") > 0
        \/ ParseIntOrZero(Responses(s), "time_estimate_seconds") > 0),
      LAMBDA s : [condition |-> Field(s, "condition_code", "self"),
                  estimateSec |-> ParseIntOrZero(Responses(s), "time_estimate_minutes") * 60
                                    + ParseIntOrZero(Responses(s), "time_estimate_seconds")])

\* conditionStats without the confidence and ratio fields
conditionStats(data, label) ==
  IF Len(data) = 0 THEN [label |-> label, n |-> 0]
  ELSE LET estimates == Map(data, LAMBDA d : d.estimateSec)
       IN [label |-> label, n |-> Len(data),
           meanEstimateSec |-> Round(Sum(estimates), Len(estimates)),
           medianEstimateSec |-> Round(medianOf(estimates).n, medianOf(estimates).d)]

\* estimation_stats without the accuracy, confidence and comparison tables
estimationStats(sessions, appDurations, index) ==
  LET withEstimates == Estimates(sessions)
      actualSecAll == Map(appDurations, LAMBDA ms : Round(ms, 1000))
  IN [conditionBalance |->
        [self |-> Cardinality({i \in 1..Len(index) :
                                 Field(index[i].val, "condition_code", "") = "self"}),
         average |-> Cardinality({i \in 1..Len(index) :
                                    Field(index[i].val, "condition_code", "") = "average"})],
      actualMeanSec |-> IF Len(actualSecAll) > 0
                        THEN Round(Sum(actualSecAll), Len(actualSecAll)) ELSE 0,
      actualMedianSec |-> Round(medianOf(actualSecAll).n, medianOf(actualSecAll).d),
      self |-> conditionStats(SelectSeq(withEstimates, LAMBDA d : d.condition = "self"), "Self"),
      average |-> conditionStats(SelectSeq(withEstimates, LAMBDA d : d.condition = "average"),
                                 "Average"),
      totalWithEstimates |-> Len(withEstimates)]

BIN_WIDTH == 60

\* procedure_time_distribution
histBins(appDurSec) ==
  IF Len(appDurSec) = 0 THEN <<>>
  ELSE LET maxSec == CHOOSE m \in Range(appDurSec) : \A v \in Range(appDurSec) : v <= m
           nBins == (maxSec + BIN_WIDTH - 1) \div BIN_WIDTH + 1
       IN [i \in 1..nBins |->
             [minSec |-> (i - 1) * BIN_WIDTH, maxSec |-> i * BIN_WIDTH,
              count |-> Cardinality({k \in 1..Len(appDurSec) :
                                       IF appDurSec[k] \div BIN_WIDTH < nBins - 1
                                       THEN appDurSec[k] \div BIN_WIDTH = i - 1
                                       ELSE i = nBins})]]

Positive(values) == SelectSeq(values, LAMBDA v : v > 0)

\* the timing, page, document, quality, phase and estimation statistics of
\* the response, computed from the sessions given as exploitable
Statistics(sessions, index) ==
  LET totalDurations ==
        Positive(Map(sessions, LAMBDA s : EitherNum(s, "totalDurationMs", "total_duration_ms")))
      appDurations == Positive(Map(sessions, LAMBDA s : Field(s, "applicationDurationMs", 0)))
      docTimes == Positive(Map(sessions, LAMBDA s : Field(s, "totalDocTimeMs", 0)))
      docOpenCounts == Map(sessions, LAMBDA s : Field(s, "totalDocOpens", 0))
      errorCounts == Map(sessions, LAMBDA s : EitherNum(s, "totalErrors", "total_errors"))
      appDurSec == Map(appDurations, LAMBDA ms : Round(ms, 1000))
  IN Assign(
       [exploitable_sessions |-> Len(sessions),
        avg_total_duration_formatted |-> fmt(Mean(totalDurations)),
        avg_task_duration_formatted |-> fmt(Mean(appDurations)),
        avg_errors |-> toFixed1(Mean(errorCounts)),
        avg_doc_time_formatted |-> fmt(Mean(docTimes)),
        avg_doc_opens |-> toFixed1(Mean(docOpenCounts)),
        page_stats |-> pageStatsArr(sessions),
        doc_stats |-> docStats(sessions),
        median_total_duration_formatted |-> fmt(medianOf(totalDurations)),
        median_task_duration_formatted |-> fmt(medianOf(appDurations)),
        median_errors |-> medianOf(errorCounts),
        median_doc_time_formatted |-> fmt(medianOf(docTimes)),
        median_doc_opens |-> medianOf(docOpenCounts),
        procedure_time_distribution |-> histBins(appDurSec),
        procedure_times_sec |-> appDurSec,
        phase_stats |-> phaseStats(sessions),
        estimation_stats |-> estimationStats(sessions, appDurations, index)],
       QualityStats(sessions))

\* the session counts and the drop-off table of the response
StatusCounts(all) ==
  [status |-> 200,
   total_sessions |-> Len(all),
   complete_sessions |-> Len(WithStatus(all, "complete")),
   submitted_sessions |-> Len(WithStatus(all, "submitted")),
   ineligible_sessions |-> Len(WithStatus(all, "ineligible")),
   dropped_sessions |-> Len(WithStatus(all, "dropped")),
   incomplete_sessions |-> Len(WithStatus(all, "incomplete")),
   consented_sessions |-> Len(SelectSeq(all, LAMBDA s : Field(s, "consent_given", FALSE))),
   drop_off |-> dropOffArr(all)]

\* GET /api/stats with the statistics of its response
StatsReport(query) ==
  LET all == getMergedSessions
  IN ReadRoute("stats", query,
               Assign(StatusCounts(all), Statistics(exploitable(all), sessionIndex)))

\* ------------------------------------------------------------------------
\* GET /api/export/csv: the text of the response (server.js:1187-1323)
\* ------------------------------------------------------------------------
\* the page ids, document ids and form field names of the model in the
\* order Array.prototype.sort() puts them
ALPHABETICAL ==
  <<"applicant_details", "application_submitted", "comments", "consent",
    "date_of_birth", "electricity_bill", "eligibility_documents",
    "eligibility_rules", "first_name", "full_name", "is_eligible",
    "last_name", "national_id", "plate", "residence_document",
    "time_estimate_minutes", "time_estimate_seconds", "vehicle_category",
    "vehicle_env_classification", "vehicle_fuel_type", "vehicle_owner_type",
    "vehicle_registration", "vehicle_registration_number", "water_bill">>

\* Array.from(set).sort()
sort(names) == SelectSeq(ALPHABETICAL, LAMBDA n : n \in names)

baseHeaders ==
  <<"session_id", "prolific_pid", "study_id", "condition_code", "condition_forced",
    "procedure_version", "started_at", "completed_at", "completion_status", "last_page",
    "consent_given", "totalDurationMs", "applicationDurationMs", "totalDocTimeMs",
    "totalDocOpens", "totalErrors", "screen_width", "screen_height", "timezone",
    "language", "platform">>

qualityHeaders ==
  <<"quality_errors", "quality_would_reject", "quality_error_fields",
    "quality_error_details", "overdoc_eligibility", "overdoc_eligibility_extras",
    "overdoc_eligibility_total_selected", "overdoc_residence",
    "overdoc_residence_selected", "ineligible_skipped">>

computedHeaders == <<"time_estimate_total_seconds">>

NumberHeaders ==
  {"session_id", "totalDurationMs", "applicationDurationMs", "totalDocTimeMs",
   "totalDocOpens", "totalErrors"}
TimeHeaders == {"started_at", "completed_at"}
BooleanHeaders == {"condition_forced", "consent_given"}

BooleanText(b) == IF b THEN <<"true">> ELSE <<"false">>
YesNo(b) == IF b THEN <<"yes">> ELSE <<"no">>

\* String(s[h] != null ? s[h] : '') of a base column
BaseCell(s, h) ==
  IF h \notin DOMAIN s THEN <<>>
  ELSE IF h \in NumberHeaders THEN NumberText(s[h])
  ELSE IF h \in TimeHeaders THEN (IF s[h] = NullTime THEN <<>> ELSE NumberText(s[h]))
  ELSE IF h \in BooleanHeaders THEN BooleanText(s[h])
  ELSE IF s[h] = Null THEN <<>>
  ELSE Chars(s[h])

allFormFields(sessions) == UNION {DOMAIN Responses(sessions[i]) : i \in 1..Len(sessions)}
allPageIds(sessions) == UNION {VisitedPages(sessions[i]) : i \in 1..Len(sessions)}
allDocIds(sessions) ==
  UNION {{di.docId : di \in Range(Field(sessions[i], "docInteractions", <<>>))} :
           i \in 1..Len(sessions)}

\* the header row, each name a text
headers(sessions) ==
  Map(baseHeaders, LAMBDA h : <<h>>)
    \o Map(sort(allPageIds(sessions)), LAMBDA pid : <<"time_", pid, "_ms">>)
    \o Flatten(Map(sort(allDocIds(sessions)),
                   LAMBDA did : <<<<"doc_", did, "_opens">>, <<"doc_", did, "_totalMs">>>>))
    \o Map(sort(allPageIds(sessions)), LAMBDA pid : <<"errors_", pid>>)
    \o Map(sort(allFormFields(sessions)), LAMBDA f : <<f>>)
    \o Map(qualityHeaders, LAMBDA h : <<h>>)
    \o Map(computedHeaders, LAMBDA h : <<h>>)

\* timingMap[pid] != null ? timingMap[pid] : '', where each visit of the
\* page has set timingMap[pt.pageId] = pt.durationMs
timingCell(s, pid) ==
  LET visits == SelectSeq(Timings(s), LAMBDA pt : pt.pageId = pid)
  IN IF Len(visits) = 0 \/ "durationMs" \notin DOMAIN visits[Len(visits)] THEN <<>>
     ELSE NumberText(visits[Len(visits)].durationMs)

\* the doc_<did>_opens and doc_<did>_totalMs cells
docCells(s, did) ==
  LET opens == SelectSeq(Field(s, "docInteractions", <<>>), LAMBDA di : di.docId = did)
  IN <<NumberText(Len(opens)),
       NumberText(Sum(Map(opens, LAMBDA di : Field(di, "durationMs", 0))))>>

\* s.errorCountsByPage?.[pid] || 0
errorsCell(s, pid) == NumberText(Field(Field(s, "errorCountsByPage", EmptyObj), pid, 0))

\* val != null ? (Array.isArray(val) ? val.join(';') : val) : ''
formCell(responses, f) ==
  IF f \notin DOMAIN responses \/ responses[f] = JsNull THEN <<>>
  ELSE IF IsArray(responses[f]) THEN Join(Texts(responses[f].arr), <<";">>)
  ELSE Chars(responses[f].str)

\* `${e.field}: submitted="${e.submitted}" expected="${e.expected}"`
errorDetail(e) ==
  <<e.field, ": submitted=", "\"">> \o e.submitted \o <<"\"", " expected=", "\"">>
    \o e.expected \o <<"\"">>

\* a form value is truthy: not undefined, null or ''
Given(responses, f) ==
  f \in DOMAIN responses /\ responses[f] # JsNull /\ responses[f] # Str("")

\* the quality, over-documentation and eligibility cells
qualityCells(s) ==
  LET responses == Responses(s)
      score == scoreApplication(s)
      eligOverdoc == EligibilityOverDoc(score)
      residenceVal == IF Given(responses, "residence_document")
                      THEN StringOf(responses.residence_document) ELSE <<>>
  IN <<NumberText(score.totalErrors),
       YesNo(score.wouldReject),
       Join(Map(score.errors, LAMBDA e : <<e.field>>), <<";">>),
       Join(Map(score.errors, errorDetail), <<" | ">>),
       YesNo(Len(eligOverdoc) > 0),
       IF Len(eligOverdoc) > 0 THEN Join(Texts(eligOverdoc[1].extraDocs), <<";">>) ELSE <<>>,
       IF Len(eligOverdoc) > 0 THEN NumberText(eligOverdoc[1].totalSelected)
       ELSE IF Given(responses, "eligibility_documents")
       THEN NumberText(Len(AsArray(responses.eligibility_documents)))
       ELSE <<>>,
       IF residenceVal # <<>> /\ residenceVal # <<"electricity_bill">>
       THEN <<"wrong_choice">> ELSE <<"correct">>,
       residenceVal,
       YesNo(Field(responses, "is_eligible", JsNull) = Str("no"))>>

\* time_estimate_total_seconds
estimateCell(s) ==
  LET estMin == ParseIntOrZero(Responses(s), "time_estimate_minutes")
      estSec == ParseIntOrZero(Responses(s), "time_estimate_seconds")
  IN IF estMin > 0 \/ estSec > 0 THEN NumberText(estMin * 60 + estSec) ELSE <<>>

\* the cells of the row of session s, in header order, each as String(val)
rowCells(s, sessions) ==
  LET enriched == Assign(s, [completion_status |-> getCompletionStatus(s),
                             last_page |-> getLastPage(s)])
  IN Map(baseHeaders, LAMBDA h : BaseCell(enriched, h))
       \o Map(sort(allPageIds(sessions)), LAMBDA pid : timingCell(s, pid))
       \o Flatten(Map(sort(allDocIds(sessions)), LAMBDA did : docCells(s, did)))
       \o Map(sort(allPageIds(sessions)), LAMBDA pid : errorsCell(s, pid))
       \o Map(sort(allFormFields(sessions)), LAMBDA f : formCell(Responses(s), f))
       \o qualityCells(s)
       \o <<estimateCell(s)>>

RECURSIVE DoubleQuotes(_)
\* str.replace(/"/g, '""')
DoubleQuotes(str) ==
  IF Len(str) = 0 THEN <<>>
  ELSE (IF str[1] = "\"" THEN <<"\"", "\"">> ELSE <<str[1]>>) \o DoubleQuotes(Tail(str))

csvEscape_Bare(str) == str
csvEscape(str) ==
  IF \E i \in 1..Len(str) : str[i] \in {",", "\"", "\n"}
  THEN <<"\"">> \o DoubleQuotes(str) \o <<"\"">>
  ELSE str

\* csvLines.join('\n')
csvText(sessions) ==
  Join(<<Join(headers(sessions), <<",">>)>>
         \o Map(sessions, LAMBDA s : Join(Map(rowCells(s, sessions), csvEscape), <<",">>)),
       <<"\n">>)

\* GET /api/export/csv with the text it sends
ExportCsvText(query) ==
  LET sessions == getMergedSessions
  IN ReadRoute("export/csv", query,
               [status |-> 200,
                body |-> IF Len(sessions) = 0 THEN <<>> ELSE csvText(sessions)])

\* ------------------------------------------------------------------------
\* Sessions with behavioural summaries, then stats and the CSV export
\* ------------------------------------------------------------------------
MaxReportSessions == 2
MaxReportUpdates == 2

Visit(pid, ms) == [pageId |-> pid, durationMs |-> ms]
Opened(did, ms) == [docId |-> did, durationMs |-> ms]

\* a submitted application with one document too many and a free-text answer
\* holding a comma, a double quote and a line break
ApplicationForm ==
  <<[key |-> "applicant_details",
     val |-> [first_name |-> Str(" John "), last_name |-> Str("doe"),
              date_of_birth |-> Str("12/6/1990"), national_id |-> Str("id-458921")]],
    [key |-> "eligibility_rules", val |-> [is_eligible |-> Str("yes")]],
    [key |-> "doc_upload_eligibility",
     val |-> [eligibility_documents |-> Arr(REQUIRED_DOCS \o <<"water_bill">>)]],
    [key |-> "feedback",
     val |-> [comments |-> Str("a,\"b\nc"), time_estimate_minutes |-> Str("3"),
              time_estimate_seconds |-> Str("07")]]>>

\* the whole flow, with applicant_details visited twice
ReportCompleteBodies(sid) ==
  {[session_id |-> sid, totalDurationMs |-> 9000, applicationDurationMs |-> 8000,
    totalDocTimeMs |-> 1500, totalDocOpens |-> 2, totalErrors |-> 2,
    errorCountsByPage |-> [applicant_details |-> 2],
    pageTimings |-> <<Visit("applicant_details", 3000), Visit("eligibility_rules", 1000),
                      Visit("applicant_details", 4000)>>,
    docInteractions |-> <<Opened("water_bill", 1000), Opened("water_bill", 500)>>,
    formResponses |-> ApplicationForm],
   \* answered "not eligible"
   [session_id |-> sid, totalDurationMs |-> 20000, applicationDurationMs |-> 20000,
    pageTimings |-> <<Visit("eligibility_rules", 20000)>>,
    formResponses |-> <<[key |-> "eligibility_rules", val |-> [is_eligible |-> Str("no")]]>>],
   \* entries without their durationMs
   [session_id |-> sid,
    pageTimings |-> <<[pageId |-> "applicant_details"]>>,
    docInteractions |-> <<[docId |-> "water_bill"]>>]}

ReportSnapshotBodies(sid) ==
  {\* reached application_submitted
   [session_id |-> sid, totalDurationMs |-> 6000, applicationDurationMs |-> 5000,
    pageTimings |-> <<Visit("applicant_details", 5000), Visit("application_submitted", 1000)>>,
    docInteractions |-> <<Opened("vehicle_registration", 700)>>,
    formResponses |-> <<[key |-> "vehicle_category",
                         val |-> [vehicle_category |-> Str("N1")]]>>],
   \* did not reach it
   [session_id |-> sid, totalDurationMs |-> 60000, applicationDurationMs |-> 60000,
    totalDocTimeMs |-> 9000, totalDocOpens |-> 1, totalErrors |-> 5,
    errorCountsByPage |-> [applicant_details |-> 5],
    pageTimings |-> <<Visit("applicant_details", 60000)>>,
    docInteractions |-> <<Opened("electricity_bill", 9000)>>,
    formResponses |-> <<[key |-> "applicant_details",
                         val |-> [first_name |-> Str("jane")]]>>]}

\* past the submission page, with no summary at all
ReportProgressBodies(sid) ==
  {[session_id |-> sid, currentPageIndex |-> 12, currentPageId |-> "application_submitted"]}

CanReportUpdate == Len(updatesLog) < MaxReportUpdates

ReportCreate ==
  /\ Len(sessionsLog) < MaxReportSessions
  /\ Create(ParticipantBody)
  /\ UNCHANGED <<probe, clientVars>>

ReportConsent ==
  /\ CanReportUpdate
  /\ \E sid \in KnownIds : Consent([session_id |-> sid])
  /\ UNCHANGED <<probe, clientVars>>

ReportProgress ==
  /\ CanReportUpdate
  /\ \E sid \in KnownIds : \E body \in ReportProgressBodies(sid) : Progress(body)
  /\ UNCHANGED <<probe, clientVars>>

ReportSnapshot ==
  /\ CanReportUpdate
  /\ \E sid \in KnownIds : \E body \in ReportSnapshotBodies(sid) : Snapshot(body)
  /\ UNCHANGED <<probe, clientVars>>

ReportComplete ==
  /\ CanReportUpdate
  /\ \E sid \in KnownIds : \E body \in ReportCompleteBodies(sid) : Complete(body)
  /\ UNCHANGED <<probe, clientVars>>

GetStats == StatsReport(Key) /\ UNCHANGED <<probe, clientVars>>

GetCsv == ExportCsvText(Key) /\ UNCHANGED <<probe, clientVars>>

NextReport ==
  \/ ReportCreate
  \/ ReportConsent
  \/ ReportProgress
  \/ ReportSnapshot
  \/ ReportComplete
  \/ GetStats
  \/ GetCsv

SpecReport == Init /\ [][NextReport]_vars

\* the merged sessions classified complete or submitted
Usable ==
  SelectSeq(getMergedSessions,
            LAMBDA s : getCompletionStatus(s) \in {"complete", "submitted"})

\* the durations of the visits of session s to page pid
VisitsTo(s, pid) ==
  Map(SelectSeq(Field(s, "pageTimings", <<>>), LAMBDA pt : pt.pageId = pid),
      LAMBDA pt : Field(pt, "durationMs", NaN))

StatsAnswered == req.op = "stats" /\ resp.status = 200

\* C21: in stats, the average time of a page is the sum, over the
\* exploitable sessions that visited it, of the session's total time on the
\* page, divided by the number of those sessions (rounded to the
\* millisecond), and n is that number: one data point per session however
\* many visits.  Stated for pages whose visits all carry a duration.
C21_PerSessionFirstAveraging ==
  StatsAnswered =>
    \A pid \in Range(PAGE_ORDER) :
      LET visitors == SelectSeq(Usable, LAMBDA s : Len(VisitsTo(s, pid)) > 0)
          entries == SelectSeq(resp.page_stats, LAMBDA e : e.pageId = pid)
          timed == \A i \in 1..Len(visitors) : NaN \notin Range(VisitsTo(visitors[i], pid))
      IN timed =>
           IF Len(visitors) = 0 THEN entries = <<>>
           ELSE /\ Len(entries) = 1
                /\ entries[1].n = Len(visitors)
                /\ entries[1].avgTimeMs =
                     Round(Sum(Map(visitors, LAMBDA s : Sum(VisitsTo(s, pid)))), Len(visitors))

\* one session visited applicant_details for 3000 and 4000 ms, another for
\* 5000 ms: the page's average is 6000 ms over 2 sessions
C21_Witness ==
  /\ StatsAnswered
  /\ \E i, j \in 1..Len(Usable) :
       /\ VisitsTo(Usable[i], "applicant_details") = <<3000, 4000>>
       /\ VisitsTo(Usable[j], "applicant_details") = <<5000>>
  /\ Len(Usable) = 2
  /\ \E k \in 1..Len(resp.page_stats) :
       /\ resp.page_stats[k].pageId = "applicant_details"
       /\ resp.page_stats[k].avgTimeMs = 6000
       /\ resp.page_stats[k].n = 2

\* the statistics of a stats response, without the count of conditions
\* over the cached index
StatisticsOf(response) ==
  LET fields == DOMAIN response \ DOMAIN StatusCounts(<<>>)
  IN [f \in fields |->
        IF f = "estimation_stats"
        THEN [k \in DOMAIN response[f] \ {"conditionBalance"} |-> response[f][k]]
        ELSE response[f]]

QuotePositions(text) == {i \in 1..Len(text) : text[i] = "\""}

Separators(text, sep) ==
  LET quotes == QuotePositions(text)
  IN {i \in 1..Len(text) :
        text[i] = sep /\ Cardinality({q \in quotes : q < i}) % 2 = 0}

\* the parts of text between the given positions
PartsAt(text, positions) ==
  LET at == SelectSeq([i \in 1..Len(text) |-> i], LAMBDA i : i \in positions)
      bound == <<0>> \o at \o <<Len(text) + 1>>
  IN [j \in 1..(Len(at) + 1) |-> SubSeq(text, bound[j] + 1, bound[j + 1] - 1)]

RECURSIVE Undouble(_)
Undouble(text) ==
  IF Len(text) = 0 THEN <<>>
  ELSE IF text[1] = "\"" THEN <<"\"">> \o Undouble(SubSeq(text, 3, Len(text)))
  ELSE <<text[1]>> \o Undouble(Tail(text))

Unquote(cell) ==
  IF Len(cell) >= 2 /\ cell[1] = "\"" /\ cell[Len(cell)] = "\""
  THEN Undouble(SubSeq(cell, 2, Len(cell) - 1))
  ELSE cell

ParseCsv(text) ==
  IF Len(text) = 0 THEN <<>>
  ELSE Map(PartsAt(text, Separators(text, "\n")),
           LAMBDA line : Map(PartsAt(line, Separators(line, ",")), Unquote))

CsvAnswered == req.op = "export/csv" /\ resp.status = 200

\* the column of the header named by the text name
ColumnOf(rows, name) == CHOOSE c \in 1..Len(rows[1]) : rows[1][c] = name

\* C27: in the CSV export, the cell time_<pageId>_ms of a session is the sum
\* of durationMs over all its pageTimings entries of the page, and is empty
\* when it has none.  Stated for sessions whose visits all carry a duration.
C27_CsvTimingAccumulation ==
  (CsvAnswered /\ Len(getMergedSessions) > 0) =>
    LET sessions == getMergedSessions
        rows == ParseCsv(resp.body)
    IN \A i \in 1..Len(sessions) :
         \A pid \in allPageIds(sessions) :
           LET visits == VisitsTo(sessions[i], pid)
               cell == rows[i + 1][ColumnOf(rows, <<"time_", pid, "_ms">>)]
           IN NaN \notin Range(visits) =>
                cell = IF Len(visits) = 0 THEN <<>> ELSE NumberText(Sum(visits))

\* the form fields of a session whose submitted value is a string
TextFields(s) == {f \in DOMAIN Responses(s) : IsString(Responses(s)[f])}

\* C28: the CSV export is empty when there is no session; otherwise it reads
\* back as the header row and one row per merged session, in order, each
\* with one cell per column, and the cell of a text form field is the
\* submitted string, whatever commas, double quotes and line breaks it holds.
C28_CsvRoundTrip ==
  CsvAnswered =>
    LET sessions == getMergedSessions
        rows == ParseCsv(resp.body)
    IN IF Len(sessions) = 0 THEN resp.body = <<>>
       ELSE /\ Len(rows) = Len(sessions) + 1
            /\ \A r \in 1..Len(rows) : Len(rows[r]) = Len(rows[1])
            /\ \A i \in 1..Len(sessions) :
                 /\ rows[i + 1][ColumnOf(rows, <<"session_id">>)]
                      = NumberText(sessions[i].session_id)
                 /\ \A f \in TextFields(sessions[i]) :
                      rows[i + 1][ColumnOf(rows, <<f>>)] = Chars(Responses(sessions[i])[f].str)

\* a session whose comments hold a comma, a double quote and a line break
\* was exported next to another session, and its cell reads back unchanged
C28_Witness ==
  /\ CsvAnswered
  /\ Len(getMergedSessions) = 2
  /\ \E i \in 1..2 :
       LET s == getMergedSessions[i]
           rows == ParseCsv(resp.body)
       IN /\ "comments" \in TextFields(s)
          /\ {",", "\"", "\n"} \subseteq Range(Chars(Responses(s).comments.str))
          /\ rows[i + 1][ColumnOf(rows, <<"comments">>)] = Chars(Responses(s).comments.str)

\* the numbers of the page, document and phase tables of a stats response
TableNumbers(response) ==
  UNION {{e.avgTimeMs, e.totalErrors, e.errorRate, e.n} : e \in Range(response.page_stats)}
    \cup UNION {{e.avgTimeMs, e.totalOpens, e.viewedByPct} : e \in Range(response.doc_stats)}
    \cup UNION {{e.avgMs, e.medianMs.n, e.n} : e \in Range(response.phase_stats)}

\* C30: stats and the CSV export answer normally whatever optional fields
\* and sub-fields the merged sessions lack, and no statistic is NaN.
C30_AggregationToleratesMissingData ==
  /\ req.op = "stats" => (resp.status = 200 /\ NaN \notin TableNumbers(resp))
  /\ req.op = "export/csv" => resp.status = 200

\* ------------------------------------------------------------------------
\* Progress and summary requests to one session, in any order
\* ------------------------------------------------------------------------
ProgressFields == {"currentPageIndex", "currentPageId", "formData"}

\* field f is absent from both objects or has the same value in both
SameField(a, b, f) ==
  /\ f \in DOMAIN a <=> f \in DOMAIN b
  /\ f \in DOMAIN a => a[f] = b[f]

\* the merged session of sid after the step
MergedAfter(sid) == FindById(IndexValues(MergedMap(sessionsLog', updatesLog')), sid)[1]

MaxJourneySaves == 15
MaxJourneyBacks == 1

\* GREENZONE_PROCEDURE.pages: id, type and allowBack of each page, in order
GREENZONE_PAGES ==
  <<[id |-> "consent", type |-> "consent", allowBack |-> FALSE],
    [id |-> "instructions", type |-> "info", allowBack |-> FALSE],
    [id |-> "confirm_instructions", type |-> "form", allowBack |-> FALSE],
    [id |-> "applicant_details", type |-> "form", allowBack |-> TRUE],
    [id |-> "eligibility_rules", type |-> "info", allowBack |-> TRUE],
    [id |-> "eligibility_decision", type |-> "form", allowBack |-> TRUE],
    [id |-> "doc_upload_eligibility", type |-> "form", allowBack |-> TRUE],
    [id |-> "doc_upload_residence", type |-> "form", allowBack |-> TRUE],
    [id |-> "vehicle_info", type |-> "form", allowBack |-> TRUE],
    [id |-> "vehicle_category", type |-> "form", allowBack |-> TRUE],
    [id |-> "vehicle_fuel", type |-> "form", allowBack |-> TRUE],
    [id |-> "vehicle_env_class", type |-> "form", allowBack |-> TRUE],
    [id |-> "declaration", type |-> "form", allowBack |-> TRUE],
    [id |-> "application_submitted", type |-> "info", allowBack |-> TRUE],
    [id |-> "demographics", type |-> "form", allowBack |-> TRUE],
    [id |-> "attention_check", type |-> "form", allowBack |-> TRUE],
    [id |-> "feedback", type |-> "form", allowBack |-> TRUE],
    [id |-> "debrief", type |-> "form", allowBack |-> TRUE],
    [id |-> "completion", type |-> "completion", allowBack |-> FALSE]>>

\* this.pages[index] of the engine, whose indices start at 0
PageAt(index) == GREENZONE_PAGES[index + 1]

\* the index of a page in the shipped order
IndexOfPage(pageId) ==
  CHOOSE i \in 0..(Len(GREENZONE_PAGES) - 1) : PageAt(i).id = pageId

\* tracker.saveProgress(currentPageIndex, formData): the engine passes no
\* currentPageId, so the body carries null
saveProgress(sessionId, currentPageIndex) ==
  [op |-> "progress",
   body |-> [session_id |-> sessionId, currentPageIndex |-> currentPageIndex,
             currentPageId |-> Null, formData |-> EmptyObj]]

\* the click on the consent button: fetch('/api/session/consent', ...)
consentRequest(sessionId) == [op |-> "consent", body |-> [session_id |-> sessionId]]

InitJourney ==
  /\ InitServer /\ probe = NoProbe /\ tabs = NoTabs /\ cookie = NoCookie
  /\ browser = [open |-> FALSE, sessionId |-> 0, currentPageIndex |-> -1,
                pageHistory |-> <<>>, outbox |-> <<>>, backs |-> 0]

CanSave == Len(updatesLog) + Len(browser.outbox) + 2 <= MaxJourneySaves

\* tracker.initSession() creates the session, then engine.start() shows page 0
OpenProcedure ==
  /\ ~browser.open
  /\ Create(ParticipantBody)
  /\ browser' = [browser EXCEPT !.open = TRUE, !.sessionId = resp'.session_id,
                                !.currentPageIndex = 0]
  /\ UNCHANGED <<probe, tabs, cookie>>

\* goToPage(currentPageIndex + 1) of nextPage(), then saveProgress
GoNext(requests) ==
  LET index == browser.currentPageIndex + 1
  IN browser' = [browser EXCEPT
                   !.pageHistory = Append(@, browser.currentPageIndex),
                   !.currentPageIndex = index,
                   !.outbox = @ \o requests \o <<saveProgress(browser.sessionId, index)>>]

\* the consent box is checked and the consent button clicked
ClickConsent ==
  /\ browser.open /\ CanSave
  /\ PageAt(browser.currentPageIndex).type = "consent"
  /\ GoNext(<<consentRequest(browser.sessionId)>>)
  /\ UNCHANGED <<serverVars, probe, tabs, cookie>>

\* btn-next on a page that validates; the journey stops on the page before
\* the completion page, whose rendering completes the session
ClickNext ==
  /\ browser.open /\ CanSave
  /\ PageAt(browser.currentPageIndex).type # "consent"
  /\ PageAt(browser.currentPageIndex + 1).type # "completion"
  /\ GoNext(<<>>)
  /\ UNCHANGED <<serverVars, probe, tabs, cookie>>

\* btn-back, rendered on the pages that allow it: previousPage()
ClickBack ==
  /\ browser.open /\ CanSave
  /\ browser.backs < MaxJourneyBacks
  /\ PageAt(browser.currentPageIndex).allowBack
  /\ Len(browser.pageHistory) > 0
  /\ LET prevIndex == browser.pageHistory[Len(browser.pageHistory)]
     IN browser' = [browser EXCEPT
                      !.pageHistory = SubSeq(@, 1, Len(@) - 1),
                      !.currentPageIndex = prevIndex,
                      !.backs = @ + 1,
                      !.outbox = Append(@, saveProgress(browser.sessionId, prevIndex))]
  /\ UNCHANGED <<serverVars, probe, tabs, cookie>>

\* the server handles the oldest request the page has sent
ServeJourney ==
  /\ browser.open
  /\ Len(browser.outbox) > 0
  /\ LET request == Head(browser.outbox)
     IN IF request.op = "consent" THEN Consent(request.body) ELSE Progress(request.body)
  /\ browser' = [browser EXCEPT !.outbox = Tail(@)]
  /\ UNCHANGED <<probe, tabs, cookie>>

NextJourney ==
  \/ OpenProcedure
  \/ ClickConsent
  \/ ClickNext
  \/ ClickBack
  \/ ServeJourney

SpecJourney == InitJourney /\ [][NextJourney]_vars

\* the progress records the server has stored for the session
SavedProgress(sid) ==
  SelectSeq(updatesLog, LAMBDA u : u.update_type = "progress" /\ u.session_id = sid)

\* C31: a consented session of the shipped procedure with only progress
\* saved is classified 'submitted' exactly when the last saved
\* currentPageIndex is the index of application_submitted or of a later page.
C31_SubmittedOnLanding ==
  \A sid \in KnownIds :
    LET session == MergedOf(sid)
        saved == SavedProgress(sid)
    IN (Field(session, "consent_given", FALSE) /\ Len(saved) > 0) =>
         (getCompletionStatus(session) = "submitted"
            <=> saved[Len(saved)].currentPageIndex >= IndexOfPage("application_submitted"))

\* ------------------------------------------------------------------------
\* The drop-off table of stats
\* ------------------------------------------------------------------------
\* the merged sessions classified dropped or incomplete
StoppedEarly ==
  SelectSeq(getMergedSessions,
            LAMBDA s : getCompletionStatus(s) \in {"dropped", "incomplete"})

\* the page a session that stopped early was last seen on
LastSeenOn(s) ==
  IF Len(Field(s, "pageTimings", <<>>)) > 0
  THEN s.pageTimings[Len(s.pageTimings)].pageId
  ELSE PAGE_ORDER[Field(s, "currentPageIndex", 0) + 1]

\* C32: the drop_off table of stats has one entry per page on which some
\* dropped or incomplete session was last seen, its count is the number of
\* those sessions, and so the counts sum to the number of dropped and
\* incomplete sessions; complete, submitted and ineligible sessions are not
\* counted.
C32_DropOffCoversStoppedEarly ==
  StatsAnswered =>
    LET table == resp.drop_off
        stopped == StoppedEarly
        on(pid) == Len(SelectSeq(stopped, LAMBDA s : LastSeenOn(s) = pid))
    IN /\ \A i, j \in 1..Len(table) : table[i].pageId = table[j].pageId => i = j
       /\ \A i \in 1..Len(table) : table[i].count > 0 /\ table[i].count = on(table[i].pageId)
       /\ \A k \in 1..Len(stopped) :
            \E i \in 1..Len(table) : table[i].pageId = LastSeenOn(stopped[k])
       /\ Sum(Map(table, LAMBDA e : e.count)) = Len(stopped)

\* stats answered for a session that stopped on applicant_details next to a
\* session that submitted: the table counts the first one only
C32_Witness ==
  /\ StatsAnswered
  /\ Len(getMergedSessions) = 2
  /\ Len(StoppedEarly) = 1
  /\ LastSeenOn(StoppedEarly[1]) = "applicant_details"
  /\ resp.exploitable_sessions = 1
  /\ resp.drop_off = <<[pageId |-> "applicant_details", count |-> 1]>>

\* ------------------------------------------------------------------------
\* Session writes on a disk that can fail
\* ------------------------------------------------------------------------
MaxFaultyIds == 3
MaxFaultyUpdates == 2

\* res.status(500).json({ success: false, error: err.message })
ServerError == [status |-> 500, success |-> FALSE]

CacheOnFailure_Written(idx, body) ==
  IF "session_id" \in DOMAIN body /\ IndexHas(idx, body.session_id)
  THEN IndexAssign(idx, body.session_id, ConsentPatch(IndexGet(idx, body.session_id)))
  ELSE idx
\* the session index when fs.appendFileSync throws: every handler writes to
\* the index after appendJsonl has returned, so the catch block finds the
\* index as it was
CacheOnFailure(idx, body) == idx

\* a handler whose appendJsonl throws: the catch block answers 500
AppendThrows(op, body) ==
  /\ req' = [op |-> op, body |-> body, appendFails |-> TRUE]
  /\ resp' = ServerError
  /\ sessionIndex' = CacheOnFailure(sessionIndex, body)
  /\ UNCHANGED <<sessionsLog, updatesLog, eventLogs>>

\* POST /api/session/create when the append fails: the uuid is spent and
\* blockRandomize, when it was called, has already run
CreateThrows(body) ==
  /\ AppendThrows("create", body)
  /\ nextId' = nextId + 1
  /\ IF Either(body, "condition_code", "condition", Null) \in Conditions
     THEN currentBlock' = currentBlock
     ELSE \E r \in blockRandomize(IndexValues(sessionIndex), currentBlock) :
            currentBlock' = r.block

\* consent, progress, snapshot or complete when the append fails; progress
\* and snapshot answer 400 before any write when session_id is missing
UpdateThrows(op, body) ==
  /\ op \in {"progress", "snapshot"} => "session_id" \in DOMAIN body
  /\ AppendThrows(op, body)
  /\ UNCHANGED <<nextId, currentBlock>>

CanFaultyUpdate == Len(updatesLog) < MaxFaultyUpdates

FaultyRequests(sid) ==
  {[op |-> "consent", body |-> [session_id |-> sid]],
   [op |-> "progress", body |-> CHOOSE b \in ProgressBodies(sid) : b.currentPageIndex = 3],
   [op |-> "snapshot", body |-> SnapshotBody(sid)],
   [op |-> "complete", body |-> CompleteBody(sid)]}

FCreate ==
  /\ nextId <= MaxFaultyIds
  /\ Create(ParticipantBody)
  /\ UNCHANGED <<probe, clientVars>>

FCreateThrows ==
  /\ nextId <= MaxFaultyIds
  /\ CreateThrows(ParticipantBody)
  /\ UNCHANGED <<probe, clientVars>>

FUpdate ==
  /\ CanFaultyUpdate
  /\ \E sid \in KnownIds : \E r \in FaultyRequests(sid) :
       CASE r.op = "consent" -> Consent(r.body)
         [] r.op = "progress" -> Progress(r.body)
         [] r.op = "snapshot" -> Snapshot(r.body)
         [] r.op = "complete" -> Complete(r.body)
  /\ UNCHANGED <<probe, clientVars>>

FUpdateThrows ==
  /\ \E sid \in KnownIds : \E r \in FaultyRequests(sid) : UpdateThrows(r.op, r.body)
  /\ UNCHANGED <<probe, clientVars>>

NextFaulty ==
  \/ FCreate
  \/ FCreateThrows
  \/ FUpdate
  \/ FUpdateThrows

SpecFaulty == Init /\ [][NextFaulty]_vars

AppendFailed(request) == Field(request, "appendFails", FALSE)

\* C33: when the append to the log fails in create, consent, progress,
\* snapshot or complete, the response is a 5xx and the session index is as
\* before the request: no new entry and no changed field.
C33_StorageFailureLeavesCache ==
  [][AppendFailed(req') =>
       /\ resp'.status \in 500..599
       /\ sessionIndex' = sessionIndex]_vars

\* a create failed (its id was never stored) and a consent for a cached,
\* not yet consented session failed; the session is still not consented,
\* and the server went on serving: the session was created after the
\* failed create
C33_Witness ==
  /\ AppendFailed(req)
  /\ req.op = "consent"
  /\ resp.status = 500
  /\ Cached(req.body)
  /\ ~IndexGet(sessionIndex, req.body.session_id).consent_given
  /\ Len(sessionsLog) = 1
  /\ sessionsLog[1].session_id = 2

\* ------------------------------------------------------------------------
\* Page timing of the tracker and sendSnapshot
\* ------------------------------------------------------------------------
\* The event buffer of the tracker is left out of this specification.
\* entries counts the page entry objects made so far: an entry carries its
\* number in ref, which stands for the identity of the JavaScript object.
MaxClock == 4
MaxTimings == 2
MaxSnapshots == 2

\* this.currentPageEntry = null
NoEntry == [ref |-> 0]

\* the pages the engine enters in this specification, with their index
TrackedPages ==
  {[pageId |-> "applicant_details", pageIndex |-> 3],
   [pageId |-> "application_submitted", pageIndex |-> 13]}

nonAppPages ==
  {"consent", "instructions", "confirm_instructions", "application_submitted",
   "demographics", "attention_check", "feedback", "debrief", "completion"}

InitTracker ==
  /\ InitServer /\ probe = NoProbe /\ tabs = NoTabs /\ cookie = NoCookie
  /\ browser = [open |-> FALSE, sessionId |-> 0, now |-> 1, sessionStartTime |-> 0,
                pageTimings |-> <<>>, currentPageEntry |-> NoEntry, entries |-> 0,
                inflight |-> <<>>]

\* Date.now() - obj[field]: NaN when the field is undefined
Elapsed(now, obj, field) == IF field \in DOMAIN obj THEN now - obj[field] ELSE NaN

\* a || b on numbers: 0 and NaN are falsy
OrElse(a, b) == IF a = 0 \/ a = NaN THEN b ELSE a

\* the entry object after exitPage's timing is pushed
timing(entry, now) ==
  [pageId |-> entry.pageId, pageIndex |-> entry.pageIndex, enterTime |-> entry.enterTime,
   exitTime |-> now, durationMs |-> now - entry.enterTime]

\* exitPage(): the state of the tracker after it
AfterExit(tracker) ==
  IF tracker.currentPageEntry = NoEntry THEN tracker
  ELSE [tracker EXCEPT
          !.pageTimings = Append(@, timing(tracker.currentPageEntry, tracker.now)),
          !.currentPageEntry = NoEntry]

\* time passes in the page
Tick ==
  /\ browser.now < MaxClock
  /\ browser' = [browser EXCEPT !.now = @ + 1]
  /\ UNCHANGED <<serverVars, probe, tabs, cookie>>

\* initSession(): the session is created and sessionStartTime is set
TrackerStart ==
  /\ ~browser.open
  /\ Create(ParticipantBody)
  /\ browser' = [browser EXCEPT !.open = TRUE, !.sessionId = resp'.session_id,
                                !.sessionStartTime = browser.now]
  /\ UNCHANGED <<probe, tabs, cookie>>

enterPage(pageId, pageIndex) ==
  LET left == AfterExit(browser)
  IN /\ browser.open
     /\ Len(left.pageTimings) <= MaxTimings
     /\ browser' = [left EXCEPT
                      !.entries = @ + 1,
                      !.currentPageEntry = [ref |-> left.entries + 1, pageId |-> pageId,
                                            pageIndex |-> pageIndex, enterTime |-> left.now]]
     /\ UNCHANGED <<serverVars, probe, tabs, cookie>>

exitPage ==
  /\ browser.open
  /\ browser.currentPageEntry # NoEntry
  /\ Len(browser.pageTimings) < MaxTimings
  /\ browser' = AfterExit(browser)
  /\ UNCHANGED <<serverVars, probe, tabs, cookie>>

\* pageTimings: this.pageTimings, the visits that exitPage has pushed
SnapshotTimings(tracker) == tracker.pageTimings

\* the body of the snapshot request; a NaN is serialised as null, which the
\* server reads as a missing field
SnapshotOf(tracker) ==
  LET now == tracker.now
      pageSummary ==
        Map(SnapshotTimings(tracker),
            LAMBDA t : [pageId |-> t.pageId,
                        durationMs |-> OrElse(t.durationMs, Elapsed(now, t, "entryTime"))])
      applicationDurationMs ==
        Sum(Map(SelectSeq(pageSummary, LAMBDA t : t.pageId \notin nonAppPages),
                LAMBDA t : t.durationMs))
      sent == [session_id |-> tracker.sessionId,
               totalDurationMs |-> now - tracker.sessionStartTime,
               totalDocTimeMs |-> 0, totalDocOpens |-> 0, totalErrors |-> 0,
               errorCountsByPage |-> EmptyObj, errorCountsByField |-> EmptyObj,
               pageTimings |-> SnapshotTimings(tracker),
               docInteractions |-> <<>>, formResponses |-> EmptyObj]
  IN IF applicationDurationMs = NaN THEN sent
     ELSE Assign(sent, [applicationDurationMs |-> applicationDurationMs])

\* sendSnapshot() up to its await: the current entry is closed with
\* exitTime = Date.now() and durationMs = exitTime - currentEntry.entryTime,
\* a field the entry does not have, and the request is sent
sendSnapshot ==
  /\ browser.open
  /\ browser.inflight = <<>>
  /\ Len(updatesLog) < MaxSnapshots
  /\ LET entry == browser.currentPageEntry
         closes == entry # NoEntry /\ Field(entry, "exitTime", NullTime) = NullTime
         closed == IF closes
                   THEN Assign(entry, [exitTime |-> browser.now,
                                       durationMs |-> Elapsed(browser.now, entry, "entryTime")])
                   ELSE entry
     IN browser' = [browser EXCEPT
                      !.currentPageEntry = closed,
                      !.inflight = <<[body |-> SnapshotOf(browser), entry |-> entry,
                                      sentAt |-> browser.now]>>]
  /\ UNCHANGED <<serverVars, probe, tabs, cookie>>

\* the server handles the snapshot and sendSnapshot resumes: the entry it
\* closed is opened again, if it is still the current one
snapshotReturns ==
  /\ browser.inflight # <<>>
  /\ Snapshot(browser.inflight[1].body)
  /\ LET entry == browser.currentPageEntry
         reopens == /\ entry # NoEntry
                    /\ entry.ref = browser.inflight[1].entry.ref
                    /\ Field(entry, "exitTime", NullTime) # NullTime
     IN browser' = [browser EXCEPT
                      !.inflight = <<>>,
                      !.currentPageEntry =
                         IF reopens THEN Assign(entry, [exitTime |-> NullTime, durationMs |-> 0])
                         ELSE entry]
  /\ UNCHANGED <<probe, tabs, cookie>>

NextTracker ==
  \/ Tick
  \/ TrackerStart
  \/ \E page \in TrackedPages : enterPage(page.pageId, page.pageIndex)
  \/ exitPage
  \/ sendSnapshot
  \/ snapshotReturns

SpecTracker == InitTracker /\ [][NextTracker]_vars

\* C34: a snapshot sent while the participant is on a page carries, in its
\* pageTimings, an entry for that page with the time spent on it so far, and
\* its applicationDurationMs counts that time when the page is part of the
\* application; when sendSnapshot has returned, the entry of the page is
\* open with its enter time.
C34_SnapshotIncludesCurrentPage ==
  /\ \A i \in 1..Len(browser.inflight) :
       LET m == browser.inflight[i]
           sofar == m.sentAt - m.entry.enterTime
       IN m.entry # NoEntry =>
            /\ \E t \in Range(m.body.pageTimings) :
                 /\ t.pageId = m.entry.pageId
                 /\ t.enterTime = m.entry.enterTime
                 /\ t.durationMs = sofar
            /\ m.entry.pageId \notin nonAppPages =>
                 Field(m.body, "applicationDurationMs", 0) >= sofar
  /\ (browser.inflight = <<>> /\ browser.currentPageEntry # NoEntry) =>
       Field(browser.currentPageEntry, "exitTime", NullTime) = NullTime

\* the second half of the above alone: after sendSnapshot has returned, the
\* entry of the current page is open and a later exitPage records the whole
\* visit
SnapshotReopensEntry ==
  [][(browser.inflight # <<>> /\ browser'.inflight = <<>>
         /\ browser.currentPageEntry # NoEntry) =>
       /\ browser'.currentPageEntry.enterTime = browser.currentPageEntry.enterTime
       /\ Field(browser'.currentPageEntry, "exitTime", NullTime) = NullTime
       /\ timing(browser'.currentPageEntry, browser'.now).durationMs
            = browser'.now - browser.currentPageEntry.enterTime]_vars

\* ------------------------------------------------------------------------
\* The session index against the merged view, with restarts
\* ------------------------------------------------------------------------
NextCache ==
  \/ DoCreate
  \/ DoConsent
  \/ DoProgress
  \/ DoSnapshot
  \/ DoComplete
  \/ DoRestart

SpecCache == Init /\ [][NextCache]_vars

\* the fields of a session that the update handlers write to the index
CachedFields ==
  {"consent_given", "is_complete", "currentPageIndex", "formData"} \cup AggregateFields

\* obj[f] of JavaScript: undefined when the field is absent
Get(obj, f) == Field(obj, f, "undefined")

\* C35: for every session in the session index, the cached consent_given,
\* is_complete, currentPageIndex, formData and behavioural aggregates equal
\* those of the session in getMergedSessions().
C35_CacheAgreesWithLog ==
  \A sid \in IndexKeys(sessionIndex) :
    sid \in KnownIds =>
      \A f \in CachedFields : Get(IndexGet(sessionIndex, sid), f) = Get(MergedOf(sid), f)

\* ------------------------------------------------------------------------
\* The keys of the session index against the creation log, under the
\* maintenance routes and restarts
\* ------------------------------------------------------------------------
MaxIndexIds == 3

\* backups sent to import-sessions: one session, two sessions, and two
\* records that carry the same session_id
SecondBackup == [BackupSession EXCEPT !.session_id = 2, !.prolific_pid = "p2"]
RepeatedBackup == [BackupSession EXCEPT !.prolific_pid = "p2"]

IndexImportBodies ==
  {[sessions |-> <<>>],
   [sessions |-> <<BackupSession>>],
   [sessions |-> <<BackupSession, SecondBackup>>],
   [sessions |-> <<BackupSession, RepeatedBackup>>]}

IndexRemoveQueries ==
  {[key |-> EXPORT_KEY, pid |-> pid] : pid \in {"p1", "p2", "p9"}} \cup {[pid |-> "p1"]}

ICreate == nextId <= MaxIndexIds /\ AnyCreate /\ UNCHANGED <<probe, clientVars>>
IDeleteAll ==
  (\E body \in DeleteBodies : DeleteAllData([key |-> EXPORT_KEY], body))
    /\ UNCHANGED <<probe, clientVars>>
\* a backup holds sessions that were created before it was taken
IImport ==
  /\ \E body \in IndexImportBodies :
       /\ \A i \in 1..Len(body.sessions) : body.sessions[i].session_id < nextId
       /\ ImportSessions([key |-> EXPORT_KEY], body)
  /\ UNCHANGED <<probe, clientVars>>
IRemove == (\E q \in IndexRemoveQueries : RemoveParticipant(q)) /\ UNCHANGED <<probe, clientVars>>

NextIndex ==
  \/ ICreate
  \/ IDeleteAll
  \/ IImport
  \/ IRemove
  \/ DoRestart

SpecIndex == Init /\ [][NextIndex]_vars

\* the session_id values of the records of the creation log
LoggedIds(log) == {log[i].session_id : i \in 1..Len(log)}

\* no two records of the creation log have the same session_id
NoRepeatedId(log) ==
  \A i, j \in 1..Len(log) : log[i].session_id = log[j].session_id => i = j

\* the statement as it reads: the keys of the session index are the
\* session_id values of the creation log, in every reachable state
C36_IndexKeysAreLoggedIds ==
  IndexKeys(sessionIndex) = LoggedIds(sessionsLog)

\* C36: the session index starts with the keys of the creation log and,
\* as long as no two records of the creation log carry the same session_id
\* (only an import-sessions body that repeats a session_id brings that
\* about), create, delete-all-data, import-sessions, remove-participant and
\* restart leave the keys of the session index equal to the session_id
\* values of the creation log.
C36_IndexKeysUnlessRepeatedImport ==
  /\ IndexKeys(sessionIndex) = LoggedIds(sessionsLog)
  /\ [][(/\ IndexKeys(sessionIndex) = LoggedIds(sessionsLog)
         /\ NoRepeatedId(sessionsLog)
         /\ NoRepeatedId(sessionsLog'))
          => IndexKeys(sessionIndex') = LoggedIds(sessionsLog')]_vars

\* a participant has been removed while the session of another one stays,
\* in the log and in the index
C36_Witness ==
  /\ req.op = "remove-participant"
  /\ resp.status = 200
  /\ NoRepeatedId(sessionsLog)
  /\ Len(sessionsLog) > 0
  /\ IndexKeys(sessionIndex) = LoggedIds(sessionsLog)

\* ------------------------------------------------------------------------
\* Consent and completion under ordinary traffic
\* ------------------------------------------------------------------------
MaxLastingSessions == 1
MaxLastingUpdates == 2

LCreate ==
  /\ Len(sessionsLog) < MaxLastingSessions
  /\ Create(ParticipantBody)
  /\ UNCHANGED <<probe, clientVars>>
CanLastingUpdate == Len(updatesLog) < MaxLastingUpdates
LConsent == CanLastingUpdate /\ AnyConsent /\ UNCHANGED <<probe, clientVars>>
LProgress ==
  /\ CanLastingUpdate
  /\ \E sid \in TargetIds : Progress(saveProgress(sid, 3).body)
  /\ UNCHANGED <<probe, clientVars>>
LSnapshot == CanLastingUpdate /\ AnySnapshot /\ UNCHANGED <<probe, clientVars>>
LComplete == CanLastingUpdate /\ AnyComplete /\ UNCHANGED <<probe, clientVars>>
LResume ==
  (\E q \in {[sid |-> i] : i \in TargetIds} \cup {[pid |-> "p1"]} : Resume(q))
    /\ UNCHANGED <<probe, clientVars>>

NextLasting ==
  \/ LCreate
  \/ LConsent
  \/ LProgress
  \/ LSnapshot
  \/ LComplete
  \/ DoEvents
  \/ LResume

SpecLasting == Init /\ [][NextLasting]_vars

\* the merged session sid has flag set to true
Flagged(all, sid, flag) ==
  LET found == FindById(all, sid)
  IN found # <<>> /\ Field(found[1], flag, FALSE) = TRUE

\* C37: once the merged view of a session has is_complete = true
\* (consent_given = true), every consent, progress, snapshot, complete and
\* events-batch request leaves it so, and a resume request that finds a
\* session whose merged is_complete is true reports is_complete true.
C37_CompletionIsPermanent ==
  [][/\ \A sid \in KnownIds : \A flag \in {"is_complete", "consent_given"} :
          Flagged(getMergedSessions, sid, flag)
            => Flagged(IndexValues(MergedMap(sessionsLog', updatesLog')), sid, flag)
     /\ (req'.op = "resume" /\ resp'.found
           /\ Flagged(getMergedSessions, resp'.session_id, "is_complete"))
          => resp'.is_complete = TRUE]_vars

\* a session that was completed, then received a snapshot and was resumed
C37_Witness ==
  /\ req.op = "resume"
  /\ resp.found
  /\ resp.is_complete = TRUE
  /\ LET recs == RecordsOf(resp.session_id)
     IN /\ Len(recs) >= 3
        /\ recs[Len(recs) - 1].update_type = "complete"
        /\ recs[Len(recs)].update_type = "snapshot"

\* ------------------------------------------------------------------------
\* Answers of the export routes
\* ------------------------------------------------------------------------
\* C38: every request with the valid key to an export route has an answer
\* when its handler is done: GET /api/export/:table answers, for every
\* table, with the data of the table, with a 400 or with a 5xx.
C38_ExportAlwaysAnswers ==
  (req.op \in {"export/sessions", "export/all/json", "export/csv", "export/table"}
     /\ checkKey(req.query))
    => resp.status \in {200, 400} \cup 500..599

\* ------------------------------------------------------------------------
\* The event buffer of the tracker and its flushes
\* ------------------------------------------------------------------------
\* Events are numbered in the order of their push (field n, which stands
\* for the timestamp and the payload); a batch in flight is a request whose
\* fetch has not settled yet.
MaxPushed == 3
MaxInFlight == 2

InitFlush ==
  /\ InitServer /\ probe = NoProbe /\ tabs = NoTabs /\ cookie = NoCookie
  /\ browser = [open |-> FALSE, sessionId |-> 0, eventBuffer |-> <<>>, pushed |-> 0,
                inflight |-> <<>>, flushing |-> FALSE, completing |-> FALSE]

\* _pushEvent(type, data) on a tracker
Pushed(tracker, type) ==
  [tracker EXCEPT
     !.eventBuffer = Append(@, [type |-> type, n |-> tracker.pushed + 1,
                                sessionId |-> tracker.sessionId]),
     !.pushed = @ + 1]

\* _flush() up to its await: the buffer is copied into a request and emptied
Flushed(tracker, final) ==
  IF tracker.eventBuffer = <<>> \/ tracker.sessionId = 0 THEN tracker
  ELSE [tracker EXCEPT
          !.inflight = Append(@, [body |-> [session_id |-> tracker.sessionId,
                                            events |-> tracker.eventBuffer],
                                  final |-> final]),
          !.eventBuffer = <<>>]

\* this.eventBuffer = [...events, ...this.eventBuffer]
Restored(events, eventBuffer) == events \o eventBuffer

\* initSession() and _startFlushing()
FlushStart ==
  /\ ~browser.open
  /\ Create(ParticipantBody)
  /\ browser' = [browser EXCEPT !.open = TRUE, !.sessionId = resp'.session_id,
                                !.flushing = TRUE]
  /\ UNCHANGED <<probe, tabs, cookie>>

\* an interaction of the participant is recorded
pushEvent ==
  /\ browser.open
  /\ browser.pushed < MaxPushed
  /\ browser' = Pushed(browser, "click")
  /\ UNCHANGED <<serverVars, probe, tabs, cookie>>

\* the interval timer fires: _flush()
flush ==
  /\ browser.flushing
  /\ Len(browser.inflight) < MaxInFlight
  /\ browser' = Flushed(browser, FALSE)
  /\ UNCHANGED <<serverVars, probe, tabs, cookie>>

\* completeSession() up to its first await: the summary event is pushed and
\* the final flush is started
completeSession ==
  /\ browser.open
  /\ ~browser.completing
  /\ browser.pushed < MaxPushed
  /\ Len(browser.inflight) < MaxInFlight
  /\ browser' = [Flushed(Pushed(browser, "session_complete"), TRUE)
                   EXCEPT !.completing = TRUE]
  /\ UNCHANGED <<serverVars, probe, tabs, cookie>>

\* the tracker once the fetch of batch i has settled
Settled(i, eventBuffer) ==
  [browser EXCEPT
     !.inflight = SubSeq(@, 1, i - 1) \o SubSeq(@, i + 1, Len(@)),
     !.eventBuffer = eventBuffer]

\* completeSession() after its final flush has settled: the summary is sent
\* to /api/session/complete, then _stopFlushing()
completionSent ==
  /\ browser.completing
  /\ browser.flushing
  /\ \A i \in 1..Len(browser.inflight) : ~browser.inflight[i].final
  /\ Complete(CompleteBody(browser.sessionId))
  /\ browser' = [browser EXCEPT !.flushing = FALSE]
  /\ UNCHANGED <<probe, tabs, cookie>>

\* the server stores batch i and answers 200
batchAccepted ==
  \E i \in 1..Len(browser.inflight) :
    /\ EventsBatch(browser.inflight[i].body)
    /\ browser' = Settled(i, browser.eventBuffer)
    /\ UNCHANGED <<probe, tabs, cookie>>

\* appendJsonl throws at event k of batch i: the events before it are
\* stored, the server answers 500 and fetch resolves with that response
batchRejected ==
  \E i \in 1..Len(browser.inflight) :
    LET body == browser.inflight[i].body
    IN \E k \in 1..Len(body.events) :
         /\ eventLogs' = StoreEvents(eventLogs, body.session_id, SubSeq(body.events, 1, k - 1), 1)
         /\ req' = [op |-> "events", body |-> body, appendFails |-> TRUE]
         /\ resp' = ServerError
         /\ browser' = Settled(i, browser.eventBuffer)
         /\ UNCHANGED <<sessionsLog, updatesLog, sessionIndex, currentBlock, nextId,
                        probe, tabs, cookie>>

\* batch i does not reach the server: fetch rejects and the catch of _flush
\* puts the events back
batchLost ==
  \E i \in 1..Len(browser.inflight) :
    /\ browser' = Settled(i, Restored(browser.inflight[i].body.events, browser.eventBuffer))
    /\ UNCHANGED <<serverVars, probe, tabs, cookie>>

NextFlush ==
  \/ FlushStart
  \/ pushEvent
  \/ flush
  \/ completeSession
  \/ batchAccepted
  \/ batchRejected
  \/ batchLost
  \/ completionSent

SpecFlush == InitFlush /\ [][NextFlush]_vars

\* the numbers of the events of a sequence
Numbers(events) == {events[i].n : i \in 1..Len(events)}

InBuffer == Numbers(browser.eventBuffer)
InFlight == UNION {Numbers(browser.inflight[i].body.events) : i \in 1..Len(browser.inflight)}
InStore == UNION {Numbers(eventLogs[f]) : f \in EventFiles}

\* C39: every pushed event is in the buffer, in a batch in flight or in a
\* batch the server stored, whatever the server does with the batches; and
\* the buffer holds its events in the order of their push, events put back
\* by a failed flush ahead of the later ones.
C39_NoEventLost ==
  /\ \A n \in 1..browser.pushed : n \in InBuffer \cup InFlight \cup InStore
  /\ \A i, j \in 1..Len(browser.eventBuffer) :
       i < j => browser.eventBuffer[i].n < browser.eventBuffer[j].n

\* ------------------------------------------------------------------------
\* Balance of the randomizer across restarts
\* ------------------------------------------------------------------------
\* the difference between the counts of 'self' and 'average' among the
\* non-forced assignments of the creation log
Imbalance ==
  LET selfCount == CountOf(Organic, "self")
      avgCount == CountOf(Organic, "average")
  IN IF selfCount < avgCount THEN avgCount - selfCount ELSE selfCount - avgCount

====
